---- MODULE Spec2Model ----
(***************************************************************************)
(* Model of the TealTiger SDK decision-enforcement pipeline:               *)
(*   src/src/client/TealTiger.ts     (executeTool and its handlers)        *)
(*   src/src/client/SSAClient.ts     (transport error translation, types)  *)
(*   src/src/utils/validation.ts     (validateToolName / ...Parameters)    *)
(*   src/src/utils/errors.ts         (error classes)                       *)
(*                                                                         *)
(* JavaScript values are records [t, s, keys, kids]: t is the typeof-like  *)
(* tag, s the characters of a string (or the digits of a number), keys and *)
(* kids the entries of an object (kids alone for an array).                *)
(* A step of the model is the synchronous code that runs between two       *)
(* await points of one executeTool call.                                   *)
(***************************************************************************)
EXTENDS Integers, Sequences, FiniteSets, TLC

(***************************************************************************)
(* Bounds                                                                  *)
(***************************************************************************)
\* executeTool calls of one TealTiger instance that may be in flight at once
MaxInFlight == 1
\* executeTool calls started over the life of the instance
MaxCalls == 2
\* largest elapsed time (Date.now() - startTime) of one evaluation
MaxElapsed == 1

Slots == 1..MaxInFlight

(***************************************************************************)
(* JavaScript values                                                       *)
(***************************************************************************)
Leaf(t) == [t |-> t, s |-> <<>>, keys |-> <<>>, kids |-> <<>>]
Str(chars) == [t |-> "string", s |-> chars, keys |-> <<>>, kids |-> <<>>]
Num(digits) == [t |-> "number", s |-> digits, keys |-> <<>>, kids |-> <<>>]
Obj(ks, vs) == [t |-> "object", s |-> <<>>, keys |-> ks, kids |-> vs]
Arr(vs) == [t |-> "array", s |-> <<>>, keys |-> <<>>, kids |-> vs]
Undefined == Leaf("undefined")
Null == Leaf("null")
Boolean(b) ==
  [t |-> "boolean", s |-> <<IF b THEN "true" ELSE "false">>, keys |-> <<>>, kids |-> <<>>]

\* JavaScript truthiness (the operand of `!toolName`, `if (toolExecutor)`)
Truthy(v) ==
  CASE v.t \in {"undefined", "null"} -> FALSE
    [] v.t = "string" -> v.s # <<>>
    [] v.t = "number" -> v.s # <<"0">>
    [] v.t = "boolean" -> v.s = <<"true">>
    [] OTHER -> TRUE

Lower == {"a","b","c","d","e","f","g","h","i","j","k","l","m",
          "n","o","p","q","r","s","t","u","v","w","x","y","z"}
Upper == {"A","B","C","D","E","F","G","H","I","J","K","L","M",
          "N","O","P","Q","R","S","T","U","V","W","X","Y","Z"}
Digit == {"0","1","2","3","4","5","6","7","8","9"}
Whitespace == {" ", "\t", "\n"}

(***************************************************************************)
(* Errors (utils/errors.ts, types TealTigerErrorCode)                      *)
(***************************************************************************)
TealTigerErrorCode ==
  {"INVALID_CONFIG", "MISSING_API_KEY", "INVALID_SSA_URL",
   "NETWORK_ERROR", "TIMEOUT_ERROR", "CONNECTION_ERROR",
   "AUTHENTICATION_ERROR", "INVALID_API_KEY_FORMAT",
   "INVALID_REQUEST", "VALIDATION_ERROR",
   "SERVER_ERROR", "SERVICE_UNAVAILABLE",
   "SECURITY_DENIED", "POLICY_ERROR"}

\* A thrown value.  isError: `instanceof Error`; hasCode: `'code' in error`;
\* hasDetails: error.details is present and not undefined; details: the
\* entries of the details bag as <<key, rendering of the value>> pairs.
Thrown(isError, hasCode, code, message, hasDetails, details) ==
  [thrown |-> TRUE, isError |-> isError, hasCode |-> hasCode, code |-> code,
   message |-> message, hasDetails |-> hasDetails, details |-> details]

NoThrow ==
  [thrown |-> FALSE, isError |-> FALSE, hasCode |-> FALSE, code |-> "",
   message |-> <<>>, hasDetails |-> FALSE, details |-> <<>>]

\* new BaseTealTigerError(message, code, details): `details` is assigned only
\* when it is not undefined; a reader of error.details sees undefined
\* otherwise.  NoDetails stands for the omitted argument.
NoDetails == <<>>
BaseTealTigerError(message, code, details) ==
  Thrown(TRUE, TRUE, code, message, details # NoDetails, details)

TealTigerValidationError(message, code, details) ==
  BaseTealTigerError(message, code, details)
TealTigerNetworkError(message, code, details) ==
  BaseTealTigerError(message, code, details)
TealTigerConfigError(message, code, details) ==
  BaseTealTigerError(message, code, details)
TealTigerServerError(message, code, details) ==
  BaseTealTigerError(message, code, details)

(***************************************************************************)
(* utils/validation.ts                                                     *)
(***************************************************************************)
\* toolName.trim().length === 0
TrimIsEmpty(chars) == \A i \in 1..Len(chars) : chars[i] \in Whitespace

\* /^[a-zA-Z][a-zA-Z0-9_-]*$/.test(toolName)
MatchesToolNameGrammar(chars) ==
  /\ Len(chars) >= 1
  /\ chars[1] \in Lower \cup Upper
  /\ \A i \in 2..Len(chars) : chars[i] \in Lower \cup Upper \cup Digit \cup {"_", "-"}

\* /--/.test(toolName) || /__/.test(toolName)
HasConsecutiveSeparators(chars) ==
  \E i \in 1..(Len(chars) - 1) :
    \/ chars[i] = "-" /\ chars[i + 1] = "-"
    \/ chars[i] = "_" /\ chars[i + 1] = "_"

MaxToolNameLength == 100

\* validateToolName: the error it throws, or NoThrow
validateToolName(toolName) ==
  IF ~Truthy(toolName)
  THEN TealTigerValidationError(<<"Tool name is required">>, "INVALID_REQUEST", NoDetails)
  ELSE IF toolName.t # "string"
  THEN TealTigerValidationError(<<"Tool name must be a string">>, "INVALID_REQUEST",
                                <<<<"toolName", "toolName">>, <<"type", "typeof toolName">>>>)
  ELSE IF TrimIsEmpty(toolName.s)
  THEN TealTigerValidationError(<<"Tool name cannot be empty">>, "INVALID_REQUEST", NoDetails)
  ELSE IF ~MatchesToolNameGrammar(toolName.s)
  THEN TealTigerValidationError(
         <<"Tool name can only contain letters, numbers, hyphens, and underscores, and must start with a letter">>,
         "INVALID_REQUEST", <<<<"toolName", "toolName">>>>)
  ELSE IF HasConsecutiveSeparators(toolName.s)
  THEN TealTigerValidationError(
         <<"Tool name cannot contain consecutive hyphens or underscores">>,
         "INVALID_REQUEST", <<<<"toolName", "toolName">>>>)
  ELSE IF Len(toolName.s) > MaxToolNameLength
  THEN TealTigerValidationError(<<"Tool name cannot exceed 100 characters">>,
                                "INVALID_REQUEST",
                                <<<<"toolName", "toolName">>, <<"length", "toolName.length">>>>)
  ELSE NoThrow

\* checkValue(value, path) of validateToolParameters, over the entries i..n
\* of a container: the first error met in iteration order, or NoThrow.
RECURSIVE checkValue(_), checkEntries(_, _)
\* a check that descends into nested objects but not into arrays
checkValueSkipsArrays(value) ==
  IF value.t = "function"
  THEN TealTigerValidationError(<<"Tool parameters cannot contain functions at path: ">>,
                                "INVALID_REQUEST",
                                <<<<"path", "path">>, <<"type", "typeof value">>>>)
  ELSE IF value.t = "symbol"
  THEN TealTigerValidationError(<<"Tool parameters cannot contain symbols at path: ">>,
                                "INVALID_REQUEST",
                                <<<<"path", "path">>, <<"type", "typeof value">>>>)
  ELSE IF value.t = "object"
  THEN checkEntries(value.kids, 1)
  ELSE NoThrow

checkValue(value) ==
  IF value.t = "function"
  THEN TealTigerValidationError(<<"Tool parameters cannot contain functions at path: ">>,
                                "INVALID_REQUEST",
                                <<<<"path", "path">>, <<"type", "typeof value">>>>)
  ELSE IF value.t = "symbol"
  THEN TealTigerValidationError(<<"Tool parameters cannot contain symbols at path: ">>,
                                "INVALID_REQUEST",
                                <<<<"path", "path">>, <<"type", "typeof value">>>>)
  ELSE IF value.t \in {"object", "array"}
  THEN checkEntries(value.kids, 1)
  ELSE NoThrow

checkEntries(kids, i) ==
  IF i > Len(kids) THEN NoThrow
  ELSE LET e == checkValue(kids[i])
       IN IF e.thrown THEN e ELSE checkEntries(kids, i + 1)

validateToolParameters(parameters) ==
  IF parameters.t \in {"null", "undefined"}
  THEN TealTigerValidationError(<<"Tool parameters are required">>, "INVALID_REQUEST", NoDetails)
  ELSE IF parameters.t # "object"
  THEN TealTigerValidationError(<<"Tool parameters must be an object">>,
                                "INVALID_REQUEST",
                                <<<<"parameters", "parameters">>, <<"type", "typeof parameters">>>>)
  ELSE checkEntries(parameters.kids, 1)


(***************************************************************************)
(* SSAClient.ts: translation of transport failures                         *)
(***************************************************************************)
\* An AxiosError: its code, and the HTTP response it carries (if any)
AxiosError(code, hasResponse, status) ==
  [code |-> code, hasResponse |-> hasResponse, status |-> status]

\* a translation that has no branch for an aborted (timed-out) request
handleHttpErrorNoTimeout(error) ==
  IF error.code \in {"ECONNREFUSED", "ENOTFOUND"}
  THEN TealTigerNetworkError(<<"Unable to connect to Security Sidecar Agent">>,
                             "CONNECTION_ERROR",
                             <<<<"ssaUrl", "config.ssaUrl">>, <<"originalError", "error.message">>>>)
  ELSE IF error.hasResponse /\ error.status >= 500
  THEN TealTigerServerError(<<"Security Sidecar Agent server error">>, "SERVER_ERROR",
                            <<<<"status", ToString(error.status)>>, <<"response", "data">>>>)
  ELSE TealTigerServerError(<<"Security Sidecar Agent server error">>, "SERVER_ERROR",
                            <<<<"originalError", "error.message">>>>)

handleHttpError(error) ==
  IF error.code \in {"ECONNREFUSED", "ENOTFOUND"}
  THEN TealTigerNetworkError(<<"Unable to connect to Security Sidecar Agent">>,
                             "CONNECTION_ERROR",
                             <<<<"ssaUrl", "config.ssaUrl">>, <<"originalError", "error.message">>>>)
  ELSE IF error.code = "ECONNABORTED"
  THEN TealTigerNetworkError(<<"Request timeout">>, "TIMEOUT_ERROR",
                             <<<<"timeout", "config.timeout">>, <<"originalError", "error.message">>>>)
  ELSE IF error.hasResponse
  THEN IF error.status = 401
       THEN TealTigerConfigError(<<"Authentication failed - invalid API key">>,
                                 "AUTHENTICATION_ERROR",
                                 <<<<"apiKey", "apiKey.substring(0, 10)...">>, <<"response", "data">>>>)
       ELSE IF error.status = 400
       THEN TealTigerConfigError(<<"Invalid request format">>, "VALIDATION_ERROR",
                                 <<<<"response", "data">>>>)
       ELSE IF error.status >= 500
       THEN TealTigerServerError(<<"Security Sidecar Agent server error">>, "SERVER_ERROR",
                                 <<<<"status", ToString(error.status)>>, <<"response", "data">>>>)
       ELSE TealTigerNetworkError(<<"HTTP ", ToString(error.status), ": ", "statusText">>,
                                  "NETWORK_ERROR",
                                  <<<<"status", ToString(error.status)>>, <<"response", "data">>>>)
  ELSE TealTigerNetworkError(<<"Network error occurred">>, "NETWORK_ERROR",
                             <<<<"originalError", "error.message">>>>)

\* `error instanceof AxiosError`, `error instanceof Error` and `'code' in
\* error` for a caught value: an AxiosError is an Error, and has a code
\* property when it was constructed with one
IsAxiosError(error) == "hasResponse" \in DOMAIN error
InstanceOfError(error) == IF IsAxiosError(error) THEN TRUE ELSE error.isError
HasCode(error) == IF IsAxiosError(error) THEN error.code # "" ELSE error.hasCode

\* handleError(error, context): what the catch block of an operation
\* rethrows.  For a failed HTTP exchange the response interceptor has already
\* replaced the AxiosError by handleHttpError's result, an Error that has a
\* code, which handleError returns unchanged.
handleError(error, context) ==
  IF InstanceOfError(error) /\ HasCode(error)
  THEN error
  ELSE IF IsAxiosError(error)
  THEN handleHttpError(error)
  ELSE TealTigerNetworkError(
         <<context, ": ">> \o (IF error.isError THEN error.message ELSE <<"Unknown error">>),
         "NETWORK_ERROR",
         <<<<"context", context>>, <<"originalError", "error">>>>)

\* a rejection that reports every failed exchange alike
evaluateSecurityRejectionUnclassified(axiosError) ==
  TealTigerNetworkError(<<"Network error occurred">>, "NETWORK_ERROR",
                        <<<<"originalError", "error.message">>>>)

\* The rejection of ssaClient.evaluateSecurity for a failed HTTP exchange
evaluateSecurityRejection(axiosError) ==
  handleError(handleHttpError(axiosError), "Security evaluation failed")

(***************************************************************************)
(* Decisions, responses, results (types.ts)                                *)
(***************************************************************************)
AgentId == "test-agent"

ToolExecutionRequest(toolName, parameters) ==
  [agentId |-> AgentId, toolName |-> toolName, parameters |-> parameters]

NoRequest == ToolExecutionRequest(Undefined, Undefined)

SecurityDecision(requestId, toolName, action, reason, riskLevel, hasTR, tr) ==
  [requestId |-> requestId, agentId |-> AgentId, toolName |-> toolName,
   action |-> action, reason |-> reason, riskLevel |-> riskLevel,
   hasTransformedRequest |-> hasTR, transformedRequest |-> tr]

\* SecurityEvaluationResponse; hasDecision is FALSE when the body carries no
\* decision object
SecurityEvaluationResponse(success, hasDecision, decision) ==
  [success |-> success, hasDecision |-> hasDecision, decision |-> decision]

NoError == [code |-> "", message |-> <<>>, hasDetails |-> FALSE, details |-> <<>>]
NoData == "undefined"

\* ToolExecutionResult
ToolExecutionResult(success, data, decision, hasError, error) ==
  [success |-> success, data |-> data, securityDecision |-> decision,
   hasError |-> hasError, error |-> error]

(***************************************************************************)
(* TealTiger.ts: statistics                                                *)
(***************************************************************************)
RECURSIVE Gcd(_, _)
Gcd(a, b) == IF b = 0 THEN a ELSE Gcd(b, a % b)

\* a non-negative rational in lowest terms
Ratio(n, d) == LET g == Gcd(n, d) IN [num |-> n \div g, den |-> d \div g]

InitialStatistics ==
  [totalRequests |-> 0, allowedRequests |-> 0, deniedRequests |-> 0,
   transformedRequests |-> 0, averageResponseTime |-> Ratio(0, 1),
   errorCount |-> 0]

\* a switch without its break statements: every case falls through to the next
countDecisionFallsThrough(st, action) ==
  [st EXCEPT !.totalRequests = @ + 1,
             !.allowedRequests = IF action = "allow" THEN @ + 1 ELSE @,
             !.deniedRequests = IF action \in {"allow", "deny"} THEN @ + 1 ELSE @,
             !.transformedRequests =
                IF action \in {"allow", "deny", "transform"} THEN @ + 1 ELSE @]

\* updateStatistics up to and including the switch on decision.action
countDecision(st, action) ==
  [st EXCEPT !.totalRequests = @ + 1,
             !.allowedRequests = IF action = "allow" THEN @ + 1 ELSE @,
             !.deniedRequests = IF action = "deny" THEN @ + 1 ELSE @,
             !.transformedRequests = IF action = "transform" THEN @ + 1 ELSE @]

\* updateStatistics(decision, responseTime)
updateStatistics(st, decision, responseTime) ==
  LET counted == countDecision(st, decision.action)
      n == counted.totalRequests
      avg == st.averageResponseTime
      \* totalTime = averageResponseTime * (totalRequests - 1) + responseTime
      totalTime == Ratio(avg.num * (n - 1) + responseTime * avg.den, avg.den)
  IN [counted EXCEPT !.averageResponseTime = Ratio(totalTime.num, totalTime.den * n)]

\* updateStatistics when the response carries no decision: totalRequests++
\* runs, then reading decision.action throws a TypeError
updateStatisticsNoDecision(st) == [st EXCEPT !.totalRequests = @ + 1]

TypeErrorThrown ==
  Thrown(TRUE, FALSE, "", <<"Cannot read properties of undefined">>, FALSE, NoDetails)

(***************************************************************************)
(* TealTiger.ts: executeTool, result construction                          *)
(***************************************************************************)
\* the catch block of executeTool (lines 115-140), result part
catchResult(toolName, error) ==
  ToolExecutionResult(
    FALSE, NoData,
    SecurityDecision([prefix |-> "error-", stamp |-> "Date.now()"], toolName, "deny",
                     "Tool execution failed due to error", "critical", FALSE, NoRequest),
    TRUE,
    [code |-> IF error.isError /\ error.hasCode THEN error.code ELSE "UNKNOWN_ERROR",
     message |-> IF error.isError THEN error.message ELSE <<"Unknown error occurred">>,
     hasDetails |-> error.isError /\ error.hasDetails,
     details |-> IF error.isError /\ error.hasDetails THEN error.details ELSE NoDetails])

\* a deny result that does not report why the authority refused
handleDenyDecisionGeneric(decision) ==
  ToolExecutionResult(
    FALSE, NoData, decision, TRUE,
    [code |-> "SECURITY_DENIED",
     message |-> <<"Tool execution denied">>,
     hasDetails |-> FALSE, details |-> NoDetails])

\* handleDenyDecision
handleDenyDecision(decision) ==
  ToolExecutionResult(
    FALSE, NoData, decision, TRUE,
    [code |-> "SECURITY_DENIED",
     message |-> <<"Tool execution denied: ", decision.reason>>,
     hasDetails |-> TRUE,
     details |-> <<<<"riskLevel", decision.riskLevel>>>>])

\* handleTransformDecision, `if (!decision.transformedRequest)` branch
missingTransformResult(decision) ==
  ToolExecutionResult(
    FALSE, NoData, decision, TRUE,
    [code |-> "TRANSFORMATION_ERROR",
     message |-> <<"Transform decision provided but no transformed request available">>,
     hasDetails |-> FALSE, details |-> NoDetails])

\* an executor failure that escapes to the outer catch block, which discards
\* the decision
executorFailedResultPlaceholder(decision, error, fallback) ==
  catchResult(decision.toolName, error)

\* the inner catch of handleAllowDecision / handleTransformDecision
executorFailedResult(decision, error, fallback) ==
  ToolExecutionResult(
    FALSE, NoData, decision, TRUE,
    [code |-> "TOOL_EXECUTION_ERROR",
     message |-> IF error.isError THEN error.message ELSE <<fallback>>,
     hasDetails |-> TRUE,
     details |-> <<<<"originalError", "error">>>>])

\* the final return of handleAllowDecision / handleTransformDecision
successResult(decision, data) ==
  ToolExecutionResult(TRUE, data, decision, FALSE, NoError)

fallbackMessage(action) ==
  IF action = "allow" THEN "Tool execution failed" ELSE "Transformed tool execution failed"

\* a transform handler that forwards the caller's request instead of the
\* rewritten one
executorArgumentsOriginal(toolName, parameters, decision) ==
  [toolName |-> toolName, parameters |-> parameters]

\* the arguments handleAllowDecision / handleTransformDecision pass to the
\* executor
executorArguments(toolName, parameters, decision) ==
  IF decision.action = "allow"
  THEN [toolName |-> toolName, parameters |-> parameters]
  ELSE [toolName |-> decision.transformedRequest.toolName,
        parameters |-> decision.transformedRequest.parameters]


(***************************************************************************)
(* Inputs                                                                  *)
(***************************************************************************)
FileWrite == Str(<<"f","i","l","e","-","w","r","i","t","e">>)
FileRead == Str(<<"f","i","l","e","-","r","e","a","d">>)
TooLongName == Str([i \in 1..(MaxToolNameLength + 1) |-> "a"])

\* tool names a caller may pass (toolName is `unknown` at run time)
ToolNameInputs ==
  {FileWrite,
   Str(<<>>), Str(<<" ", " ">>), Str(<<"a", " ", "b", "!">>), Str(<<"1", "a">>),
   Str(<<"a", "-", "-", "b">>), Str(<<"a", "_", "_", "b">>), TooLongName,
   Undefined, Num(<<"5">>)}

PathOnly == Obj(<<"path">>, <<Str(<<"/", "t">>)>>)
PathAndContent == Obj(<<"path", "content">>, <<Str(<<"/", "t">>), Str(<<"d">>)>>)

\* parameter values a caller may pass
ParameterInputs ==
  {PathAndContent, Obj(<<>>, <<>>),
   Null, Undefined, Str(<<"s">>), Arr(<<>>), Leaf("function"),
   Obj(<<"ok", "bad">>, <<Str(<<"v">>), Leaf("function")>>),
   Obj(<<"a">>, <<Obj(<<"b">>, <<Arr(<<Num(<<"1">>), Leaf("symbol")>>)>>)>>)}

\* the optional toolExecutor argument
ExecutorInputs == {Undefined, Leaf("function")}

\* what the executor resolves with / rejects with
ExecutorOutputs == {"file content"}
ExecutorThrows ==
  {Thrown(TRUE, FALSE, "", <<"disk full">>, FALSE, NoDetails),
   Thrown(TRUE, TRUE, "EACCES", <<"denied by os">>, FALSE, NoDetails),
   Thrown(FALSE, FALSE, "", <<>>, FALSE, NoDetails)}

Req(n) == [prefix |-> "req-", stamp |-> n]

\* decisions the authority may render
AuthorityDecisions ==
  {SecurityDecision(Req("123"), FileWrite, "allow", "Tool is safe", "low", FALSE, NoRequest),
   SecurityDecision(Req("124"), FileWrite, "deny", "Too risky", "critical", FALSE, NoRequest),
   SecurityDecision(Req("130"), FileWrite, "deny", "Tool is risky", "high", FALSE, NoRequest),
   SecurityDecision(Req("125"), FileWrite, "transform", "Convert to read-only", "medium",
                    TRUE, ToolExecutionRequest(FileRead, PathOnly)),
   SecurityDecision(Req("126"), FileWrite, "transform", "Unchanged", "low",
                    TRUE, ToolExecutionRequest(FileWrite, PathAndContent)),
   SecurityDecision(Req("127"), FileWrite, "transform", "Convert to read-only", "medium",
                    FALSE, NoRequest),
   SecurityDecision(Req("129"), FileWrite, "unknown-action", "Unknown action", "medium",
                    FALSE, NoRequest)}

NoDecision ==
  SecurityDecision(Req(""), Undefined, "", "", "", FALSE, NoRequest)

\* bodies with which POST /api/security/evaluate may answer
EvaluationResponses ==
  {SecurityEvaluationResponse(TRUE, TRUE, d) : d \in AuthorityDecisions}
  \cup {SecurityEvaluationResponse(FALSE, TRUE, d) : d \in AuthorityDecisions}
  \cup {SecurityEvaluationResponse(b, FALSE, NoDecision) : b \in BOOLEAN}

\* ways the HTTP exchange may fail
TransportFailures ==
  {AxiosError("ECONNREFUSED", FALSE, 0), AxiosError("ENOTFOUND", FALSE, 0),
   AxiosError("ECONNABORTED", FALSE, 0), AxiosError("ERR_NETWORK", FALSE, 0),
   AxiosError("ERR_BAD_REQUEST", TRUE, 401), AxiosError("ERR_BAD_REQUEST", TRUE, 400),
   AxiosError("ERR_BAD_REQUEST", TRUE, 404), AxiosError("ERR_BAD_RESPONSE", TRUE, 500),
   AxiosError("ERR_BAD_RESPONSE", TRUE, 503)}

NoFailure == AxiosError("", FALSE, 0)
NoResponse == SecurityEvaluationResponse(FALSE, FALSE, NoDecision)
NoResult == ToolExecutionResult(FALSE, NoData, NoDecision, FALSE, NoError)

(***************************************************************************)
(* State                                                                   *)
(***************************************************************************)
VARIABLES
  statistics,   \* this.statistics of the TealTiger instance
  pc,           \* per call: "idle", "awaitEval", "awaitExecutor", "done"
  call,         \* per call: the arguments of executeTool
  evaluation,   \* per call: how evaluateSecurity settled (outcome, response, failure)
  settled,      \* per call: "pending", "resolved" or "rejected" promise of executeTool
  result,       \* per call: the ToolExecutionResult the promise resolved to
  caught,       \* per call: the outer catch block of executeTool ran
  evaluateCalls,  \* per call: number of ssaClient.evaluateSecurity invocations
  executorCalls,  \* per call: the argument lists the toolExecutor was invoked with
  executorOutcome,  \* per call: how the toolExecutor's promise settled
  started,      \* number of executeTool calls made so far
  history,      \* what the calls did to the statistics since the last reset
  adapter,      \* a provider adapter instance and its call in progress
  builder,      \* a PolicyBuilder instance and the outcome of its last method call
  configuration,  \* a Configuration instance and the views taken of it
  ssa,          \* an SSAClient instance, its request in progress and the console
  applied       \* a utility function, the argument it was applied to and its result

\* the state of the TealTiger client
clientVars == <<statistics, pc, call, evaluation, settled, result, caught,
                evaluateCalls, executorCalls, executorOutcome, started, history>>

vars == <<statistics, pc, call, evaluation, settled, result, caught,
          evaluateCalls, executorCalls, executorOutcome, started,
          history, adapter, builder, configuration, ssa, applied>>

\* the state outside the TealTiger client, the adapter, the builder
notClient == <<adapter, builder, configuration, ssa, applied>>
notAdapter == <<clientVars, builder, configuration, ssa, applied>>
notBuilder == <<clientVars, adapter, configuration, ssa, applied>>
notApplied == <<clientVars, adapter, builder, configuration, ssa>>

NoOutcome == [outcome |-> "none", data |-> NoData, error |-> NoThrow]
NoCall == [toolName |-> Undefined, parameters |-> Undefined, toolExecutor |-> Undefined]
NoEvaluation == [outcome |-> "none", response |-> NoResponse, failure |-> NoFailure]

\* nothing observed yet: no decision tallied, no call has touched the statistics
NoHistory(slots) ==
  [allow |-> 0, deny |-> 0, transform |-> 0, evaluated |-> 0, caught |-> 0,
   sampled |-> 0, sampleSum |-> 0,
   counted |-> [c \in slots |-> 0]]

\* no adapter, builder, Configuration or SSAClient has been constructed
NoAdapter == [pc |-> "absent"]
NoBuilder == [outcome |-> "absent"]
NoConfiguration == [outcome |-> "absent"]
NoSSAClient == [pc |-> "absent"]
NoApplication == [pc |-> "absent"]

\* a new TealTiger client able to run the calls of `slots`
ClientInit(slots) ==
  /\ statistics = InitialStatistics
  /\ pc = [c \in slots |-> "idle"]
  /\ call = [c \in slots |-> NoCall]
  /\ evaluation = [c \in slots |-> NoEvaluation]
  /\ settled = [c \in slots |-> "pending"]
  /\ result = [c \in slots |-> NoResult]
  /\ caught = [c \in slots |-> FALSE]
  /\ evaluateCalls = [c \in slots |-> 0]
  /\ executorCalls = [c \in slots |-> <<>>]
  /\ executorOutcome = [c \in slots |-> NoOutcome]
  /\ started = 0
  /\ history = NoHistory(slots)

Init ==
  /\ ClientInit(Slots)
  /\ adapter = NoAdapter
  /\ builder = NoBuilder
  /\ configuration = NoConfiguration
  /\ ssa = NoSSAClient
  /\ applied = NoApplication

\* what the step of call c just taken did to the statistics and how the
\* call's evaluation settled, added to the history; `responseTime` is the
\* sample handed to updateStatistics when the step called it with a decision
ObserveSample(c, responseTime) ==
  LET settledNow == evaluation[c].outcome = "none" /\ evaluation'[c].outcome = "resolved"
      response == evaluation'[c].response
      rendered(action) ==
        IF settledNow /\ response.success /\ response.hasDecision
                      /\ response.decision.action = action
        THEN 1 ELSE 0
  IN /\ history' = [history EXCEPT
          !.allow = @ + rendered("allow"),
          !.deny = @ + rendered("deny"),
          !.transform = @ + rendered("transform"),
          !.evaluated = @ + IF settledNow /\ response.success THEN 1 ELSE 0,
          !.caught = @ + IF caught'[c] /\ ~caught[c] THEN 1 ELSE 0,
          !.sampled = @ + IF settledNow /\ response.success /\ response.hasDecision
                          THEN 1 ELSE 0,
          !.sampleSum = @ + IF settledNow /\ response.success /\ response.hasDecision
                            THEN responseTime ELSE 0,
          !.counted[c] = @ + statistics'.totalRequests - statistics.totalRequests]
     /\ UNCHANGED notClient

\* a step that hands no sample to updateStatistics
Observe(c) == ObserveSample(c, 0)

(***************************************************************************)
(* Steps of executeTool                                                    *)
(***************************************************************************)
\* executeTool returns `res`
Resolve(c, res) ==
  /\ pc' = [pc EXCEPT ![c] = "done"]
  /\ settled' = [settled EXCEPT ![c] = "resolved"]
  /\ result' = [result EXCEPT ![c] = res]

\* a catch block that lets the error escape: the promise of executeTool rejects
CatchRethrows(c, st, toolName, error) ==
  /\ statistics' = [st EXCEPT !.errorCount = @ + 1]
  /\ caught' = [caught EXCEPT ![c] = TRUE]
  /\ pc' = [pc EXCEPT ![c] = "done"]
  /\ settled' = [settled EXCEPT ![c] = "rejected"]
  /\ UNCHANGED result

\* a catch block that counts the error on the statistics as they were when
\* the step began, discarding what the step had added to them
CatchLosesUpdate(c, st, toolName, error) ==
  /\ statistics' = [statistics EXCEPT !.errorCount = @ + 1]
  /\ caught' = [caught EXCEPT ![c] = TRUE]
  /\ Resolve(c, catchResult(toolName, error))

\* the catch block of executeTool (lines 115-140), entered with `error` after
\* the statistics have become `st`
Catch(c, st, toolName, error) ==
  /\ statistics' = [st EXCEPT !.errorCount = @ + 1]
  /\ caught' = [caught EXCEPT ![c] = TRUE]
  /\ Resolve(c, catchResult(toolName, error))

\* the first error input validation throws, or NoThrow
validateInputs(toolName, parameters) ==
  LET e == validateToolName(toolName)
  IN IF e.thrown THEN e ELSE validateToolParameters(parameters)

\* executeTool from its entry to the await of evaluateSecurity
ExecuteTool(c, toolName, parameters, toolExecutor) ==
  /\ pc[c] = "idle"
  /\ started < MaxCalls
  /\ started' = started + 1
  /\ call' = [call EXCEPT ![c] = [toolName |-> toolName, parameters |-> parameters,
                                   toolExecutor |-> toolExecutor]]
  /\ LET e == validateInputs(toolName, parameters)
     IN IF e.thrown
        THEN /\ Catch(c, statistics, toolName, e)
             /\ UNCHANGED evaluateCalls
        ELSE /\ evaluateCalls' = [evaluateCalls EXCEPT ![c] = @ + 1]
             /\ pc' = [pc EXCEPT ![c] = "awaitEval"]
             /\ UNCHANGED <<statistics, caught, settled, result>>
  /\ UNCHANGED <<evaluation, executorCalls, executorOutcome>>
  /\ Observe(c)

\* handleAllowDecision / handleTransformDecision from `if (toolExecutor)` on
RunExecutor(c, decision) ==
  IF Truthy(call[c].toolExecutor)
  THEN /\ executorCalls' = [executorCalls EXCEPT ![c] =
            Append(@, executorArguments(call[c].toolName, call[c].parameters, decision))]
       /\ pc' = [pc EXCEPT ![c] = "awaitExecutor"]
       /\ UNCHANGED <<settled, result>>
  ELSE /\ Resolve(c, successResult(decision, NoData))
       /\ UNCHANGED executorCalls

\* a switch whose default branch runs the tool as if it had been allowed
DispatchDefaultAllows(c, st, decision) ==
  CASE decision.action = "deny" ->
         /\ statistics' = st
         /\ Resolve(c, handleDenyDecision(decision))
         /\ UNCHANGED <<caught, executorCalls>>
    [] decision.action = "transform" /\ ~decision.hasTransformedRequest ->
         /\ statistics' = st
         /\ Resolve(c, missingTransformResult(decision))
         /\ UNCHANGED <<caught, executorCalls>>
    [] OTHER ->
         /\ statistics' = st
         /\ RunExecutor(c, decision)
         /\ UNCHANGED caught

\* a switch whose default branch reports an unknown action as a denial
DispatchDefaultDenies(c, st, decision) ==
  CASE decision.action = "allow" ->
         /\ statistics' = st
         /\ RunExecutor(c, decision)
         /\ UNCHANGED caught
    [] decision.action = "transform" /\ decision.hasTransformedRequest ->
         /\ statistics' = st
         /\ RunExecutor(c, decision)
         /\ UNCHANGED caught
    [] decision.action = "transform" /\ ~decision.hasTransformedRequest ->
         /\ statistics' = st
         /\ Resolve(c, missingTransformResult(decision))
         /\ UNCHANGED <<caught, executorCalls>>
    [] OTHER ->
         /\ statistics' = st
         /\ Resolve(c, handleDenyDecision(decision))
         /\ UNCHANGED <<caught, executorCalls>>

\* the switch on decision.action (lines 97-113)
Dispatch(c, st, decision) ==
  CASE decision.action = "allow" ->
         /\ statistics' = st
         /\ RunExecutor(c, decision)
         /\ UNCHANGED caught
    [] decision.action = "deny" ->
         /\ statistics' = st
         /\ Resolve(c, handleDenyDecision(decision))
         /\ UNCHANGED <<caught, executorCalls>>
    [] decision.action = "transform" ->
         /\ statistics' = st
         /\ UNCHANGED caught
         /\ IF ~decision.hasTransformedRequest
            THEN /\ Resolve(c, missingTransformResult(decision))
                 /\ UNCHANGED executorCalls
            ELSE RunExecutor(c, decision)
    [] OTHER ->
         /\ Catch(c, st, call[c].toolName, TealTigerValidationError(
                           <<"Unknown security action: ", decision.action>>,
                           "POLICY_ERROR", <<<<"decision", "decision">>>>))
         /\ UNCHANGED executorCalls

\* a continuation that dispatches any response that carries a decision,
\* whatever its success flag
EvaluationResolvesIgnoresSuccess(c, response, elapsed) ==
  /\ pc[c] = "awaitEval"
  /\ evaluation' = [evaluation EXCEPT ![c] =
       [outcome |-> "resolved", response |-> response, failure |-> NoFailure]]
  /\ IF ~response.hasDecision
     THEN /\ Catch(c, statistics, call[c].toolName, TealTigerValidationError(
                      <<"Security evaluation failed">>, "VALIDATION_ERROR",
                      <<<<"response", "evaluationResponse">>>>))
          /\ UNCHANGED executorCalls
     ELSE Dispatch(c, updateStatistics(statistics, response.decision, elapsed),
                   response.decision)
  /\ UNCHANGED <<call, evaluateCalls, executorOutcome, started>>
  /\ Observe(c)

\* evaluateSecurity resolves with `response`, `elapsed` ms after startTime:
\* executeTool runs from line 85 to its next await or its return
EvaluationResolves(c, response, elapsed) ==
  /\ pc[c] = "awaitEval"
  /\ evaluation' = [evaluation EXCEPT ![c] =
       [outcome |-> "resolved", response |-> response, failure |-> NoFailure]]
  /\ IF ~response.success
     THEN /\ Catch(c, statistics, call[c].toolName, TealTigerValidationError(
                      <<"Security evaluation failed">>, "VALIDATION_ERROR",
                      <<<<"response", "evaluationResponse">>>>))
          /\ UNCHANGED executorCalls
     ELSE IF ~response.hasDecision
     THEN /\ Catch(c, updateStatisticsNoDecision(statistics), call[c].toolName, TypeErrorThrown)
          /\ UNCHANGED executorCalls
     ELSE Dispatch(c, updateStatistics(statistics, response.decision, elapsed),
                   response.decision)
  /\ UNCHANGED <<call, evaluateCalls, executorOutcome, started>>
  /\ ObserveSample(c, elapsed)

\* evaluateSecurity rejects because the HTTP exchange failed with `failure`
EvaluationRejects(c, failure) ==
  /\ pc[c] = "awaitEval"
  /\ evaluation' = [evaluation EXCEPT ![c] =
       [outcome |-> "rejected", response |-> NoResponse, failure |-> failure]]
  /\ Catch(c, statistics, call[c].toolName, evaluateSecurityRejection(failure))
  /\ UNCHANGED <<call, evaluateCalls, executorCalls, executorOutcome, started>>
  /\ Observe(c)

\* the toolExecutor's promise fulfils with `data`
ExecutorResolves(c, data) ==
  /\ pc[c] = "awaitExecutor"
  /\ executorOutcome' = [executorOutcome EXCEPT ![c] =
       [outcome |-> "resolved", data |-> data, error |-> NoThrow]]
  /\ Resolve(c, successResult(evaluation[c].response.decision, data))
  /\ UNCHANGED <<statistics, call, evaluation, caught, evaluateCalls, executorCalls, started>>
  /\ Observe(c)

\* the toolExecutor throws or its promise rejects with `error`
ExecutorRejects(c, error) ==
  /\ pc[c] = "awaitExecutor"
  /\ executorOutcome' = [executorOutcome EXCEPT ![c] =
       [outcome |-> "rejected", data |-> NoData, error |-> error]]
  /\ Resolve(c, executorFailedResult(evaluation[c].response.decision, error,
                   fallbackMessage(evaluation[c].response.decision.action)))
  /\ UNCHANGED <<statistics, call, evaluation, caught, evaluateCalls, executorCalls, started>>
  /\ Observe(c)

\* the caller has consumed the result; the slot is free for another call
Return(c) ==
  /\ pc[c] = "done"
  /\ pc' = [pc EXCEPT ![c] = "idle"]
  /\ call' = [call EXCEPT ![c] = NoCall]
  /\ evaluation' = [evaluation EXCEPT ![c] = NoEvaluation]
  /\ settled' = [settled EXCEPT ![c] = "pending"]
  /\ result' = [result EXCEPT ![c] = NoResult]
  /\ caught' = [caught EXCEPT ![c] = FALSE]
  /\ evaluateCalls' = [evaluateCalls EXCEPT ![c] = 0]
  /\ executorCalls' = [executorCalls EXCEPT ![c] = <<>>]
  /\ executorOutcome' = [executorOutcome EXCEPT ![c] = NoOutcome]
  /\ history' = [history EXCEPT !.counted[c] = 0]
  /\ UNCHANGED <<statistics, started>>
  /\ UNCHANGED notClient

\* resetStatistics()
resetStatistics ==
  /\ statistics # InitialStatistics
  /\ statistics' = InitialStatistics
  /\ history' = [NoHistory(DOMAIN pc) EXCEPT !.counted = history.counted]
  /\ UNCHANGED <<pc, call, evaluation, settled, result, caught,
                 evaluateCalls, executorCalls, executorOutcome, started>>
  /\ UNCHANGED notClient

Next ==
  \/ \E c \in Slots, n \in ToolNameInputs, p \in ParameterInputs, x \in ExecutorInputs :
       ExecuteTool(c, n, p, x)
  \/ \E c \in Slots, r \in EvaluationResponses, e \in 0..MaxElapsed :
       EvaluationResolves(c, r, e)
  \/ \E c \in Slots, f \in TransportFailures : EvaluationRejects(c, f)
  \/ \E c \in Slots, d \in ExecutorOutputs : ExecutorResolves(c, d)
  \/ \E c \in Slots, e \in ExecutorThrows : ExecutorRejects(c, e)
  \/ \E c \in Slots : Return(c)
  \/ resetStatistics

Spec == Init /\ [][Next]_vars

(***************************************************************************)
(* Several executeTool calls in flight on one client                       *)
(***************************************************************************)
\* number of calls that may be suspended at an await at the same time
MaxConcurrent == 2

ConcurrentSlots == 1..MaxConcurrent

ConcurrentToolNames == {FileWrite, TooLongName}

ConcurrentResponses ==
  {SecurityEvaluationResponse(TRUE, TRUE, d) :
     d \in {SecurityDecision(Req("123"), FileWrite, "allow", "Tool is safe", "low",
                              FALSE, NoRequest),
            SecurityDecision(Req("124"), FileWrite, "deny", "Too risky", "critical",
                              FALSE, NoRequest),
            SecurityDecision(Req("125"), FileWrite, "transform", "Convert to read-only",
                              "medium", TRUE, ToolExecutionRequest(FileRead, PathOnly)),
            SecurityDecision(Req("129"), FileWrite, "unknown-action", "Unknown action",
                              "medium", FALSE, NoRequest)}}
  \cup {SecurityEvaluationResponse(b, FALSE, NoDecision) : b \in BOOLEAN}

ConcurrentFailures == {AxiosError("ECONNABORTED", FALSE, 0)}

ConcurrentThrows == {Thrown(TRUE, FALSE, "", <<"disk full">>, FALSE, NoDetails)}

InitConcurrent ==
  /\ ClientInit(ConcurrentSlots)
  /\ adapter = NoAdapter
  /\ builder = NoBuilder
  /\ configuration = NoConfiguration
  /\ ssa = NoSSAClient
  /\ applied = NoApplication

NextConcurrent ==
  \/ \E c \in ConcurrentSlots, n \in ConcurrentToolNames, x \in ExecutorInputs :
       ExecuteTool(c, n, PathAndContent, x)
  \/ \E c \in ConcurrentSlots, r \in ConcurrentResponses, e \in 0..MaxElapsed :
       EvaluationResolves(c, r, e)
  \/ \E c \in ConcurrentSlots, f \in ConcurrentFailures : EvaluationRejects(c, f)
  \/ \E c \in ConcurrentSlots, d \in ExecutorOutputs : ExecutorResolves(c, d)
  \/ \E c \in ConcurrentSlots, e \in ConcurrentThrows : ExecutorRejects(c, e)
  \/ \E c \in ConcurrentSlots : Return(c)
  \/ resetStatistics

SpecConcurrent == InitConcurrent /\ [][NextConcurrent]_vars


(***************************************************************************)
(* Provider adapters: TealOpenAI, TealAzureOpenAI, TealAnthropic           *)
(***************************************************************************)
\* number of create calls made on the adapter
MaxAdapterCalls == 1

Providers == {"TealOpenAI", "TealAzureOpenAI", "TealAnthropic"}

\* items.join(separator), as the sequence of its parts
Join(items, separator) ==
  [i \in 1..(2 * Len(items) - 1) |->
     IF i % 2 = 1 THEN items[(i + 1) \div 2] ELSE separator]

UpperCaseLetters ==
  <<"A", "B", "C", "D", "E", "F", "G", "H", "I", "J", "K", "L", "M",
    "N", "O", "P", "Q", "R", "S", "T", "U", "V", "W", "X", "Y", "Z">>
LowerCaseLetters ==
  <<"a", "b", "c", "d", "e", "f", "g", "h", "i", "j", "k", "l", "m",
    "n", "o", "p", "q", "r", "s", "t", "u", "v", "w", "x", "y", "z">>

\* chars.toLowerCase()
toLowerCase(chars) ==
  [i \in 1..Len(chars) |->
     IF \E k \in 1..26 : UpperCaseLetters[k] = chars[i]
     THEN LowerCaseLetters[CHOOSE k \in 1..26 : UpperCaseLetters[k] = chars[i]]
     ELSE chars[i]]

\* chars.includes(part)
includes(chars, part) ==
  \E i \in 0..(Len(chars) - Len(part)) : SubSeq(chars, i + 1, i + Len(part)) = part

Gpt4 == <<"g", "p", "t", "-", "4">>
Gpt35Turbo == <<"g", "p", "t", "-", "3", "5", "-", "t", "u", "r", "b", "o">>
Gpt3Dot5Turbo == <<"g", "p", "t", "-", "3", ".", "5", "-", "t", "u", "r", "b", "o">>

\* a mapping that looks for the gpt-4 family before its 32k and turbo variants
mapDeploymentToModelFamilyFirst(deployment) ==
  LET lowerDeployment == toLowerCase(deployment)
  IN IF includes(lowerDeployment, Gpt4)
     THEN Gpt4
     ELSE IF includes(lowerDeployment, Gpt4 \o <<"-", "3", "2", "k">>)
     THEN Gpt4 \o <<"-", "3", "2", "k">>
     ELSE IF includes(lowerDeployment, Gpt4 \o <<"-", "t", "u", "r", "b", "o">>)
     THEN Gpt4 \o <<"-", "t", "u", "r", "b", "o">>
     ELSE IF \/ includes(lowerDeployment, Gpt35Turbo \o <<"-", "1", "6", "k">>)
             \/ includes(lowerDeployment, Gpt3Dot5Turbo \o <<"-", "1", "6", "k">>)
     THEN Gpt3Dot5Turbo \o <<"-", "1", "6", "k">>
     ELSE Gpt3Dot5Turbo

\* TealAzureOpenAI.mapDeploymentToModel
mapDeploymentToModel(deployment) ==
  LET lowerDeployment == toLowerCase(deployment)
  IN IF includes(lowerDeployment, Gpt4 \o <<"-", "3", "2", "k">>)
     THEN Gpt4 \o <<"-", "3", "2", "k">>
     ELSE IF includes(lowerDeployment, Gpt4 \o <<"-", "t", "u", "r", "b", "o">>)
     THEN Gpt4 \o <<"-", "t", "u", "r", "b", "o">>
     ELSE IF includes(lowerDeployment, Gpt4)
     THEN Gpt4
     ELSE IF \/ includes(lowerDeployment, Gpt35Turbo \o <<"-", "1", "6", "k">>)
             \/ includes(lowerDeployment, Gpt3Dot5Turbo \o <<"-", "1", "6", "k">>)
     THEN Gpt3Dot5Turbo \o <<"-", "1", "6", "k">>
     ELSE IF \/ includes(lowerDeployment, Gpt35Turbo)
             \/ includes(lowerDeployment, Gpt3Dot5Turbo)
     THEN Gpt3Dot5Turbo
     ELSE Gpt3Dot5Turbo

\* the price table the adapter names to the cost tracker
pricingProvider(provider) == IF provider = "TealAnthropic" THEN "anthropic" ELSE "openai"

\* the model name the adapter names to the cost tracker
pricingModel(provider, request) ==
  IF provider = "TealAzureOpenAI" THEN mapDeploymentToModel(request.model) ELSE request.model

\* request.max_tokens || 500
DefaultOutputTokens == 500

\* length of the contents of `messages` joined with '\n'
RECURSIVE joinedLength(_)
joinedLength(messages) ==
  IF messages = <<>> THEN 0
  ELSE IF Len(messages) = 1 THEN messages[1].length
  ELSE messages[1].length + 1 + joinedLength(Tail(messages))

\* the token usage the adapter estimates before the call
estimatedTokens(provider, request) ==
  LET systemLength == IF provider = "TealAnthropic" THEN request.systemLength ELSE 0
      \* Math.ceil(length / 4)
      inputTokens == (joinedLength(request.messages) + systemLength + 3) \div 4
      outputTokens == IF provider = "TealAnthropic" \/ request.max_tokens # 0
                      THEN request.max_tokens ELSE DefaultOutputTokens
  IN [inputTokens |-> inputTokens, outputTokens |-> outputTokens,
      totalTokens |-> inputTokens + outputTokens]

\* costTracker.estimateCost(model, tokens, provider): the estimate is the
\* cost tracker's; the model keeps what it was computed from
estimateCost(provider, request) ==
  [model |-> pricingModel(provider, request), tokens |-> estimatedTokens(provider, request),
   pricing |-> pricingProvider(provider)]

\* the usage block of a provider response, mapped to the uniform token usage
actualTokens(provider, usage) ==
  [inputTokens |-> usage.input, outputTokens |-> usage.output,
   totalTokens |-> IF provider = "TealAnthropic" THEN usage.input + usage.output
                   ELSE usage.total]

\* costTracker.calculateActualCost(requestId, agentId, model, tokens, provider)
calculateActualCost(agentId, provider, request, usage) ==
  [agentId |-> agentId, model |-> pricingModel(provider, request),
   tokens |-> actualTokens(provider, usage), pricing |-> pricingProvider(provider)]

NoCostRecord ==
  [agentId |-> "", model |-> <<>>,
   tokens |-> [inputTokens |-> 0, outputTokens |-> 0, totalTokens |-> 0], pricing |-> ""]

\* the user-originated text handed to the input guardrail
userMessages(request) ==
  LET RECURSIVE pick(_)
      pick(ms) == IF ms = <<>> THEN <<>>
                  ELSE IF ms[1].role = "user" THEN <<ms[1].content>> \o pick(Tail(ms))
                  ELSE pick(Tail(ms))
  IN Join(pick(request.messages), "\n")

\* a GuardrailEngineResult, as far as the adapter reads it
GuardrailEngineResult(passed, failedGuardrails, maxRiskScore) ==
  [passed |-> passed, failedGuardrails |-> failedGuardrails, maxRiskScore |-> maxRiskScore]

NoGuardrailResult == GuardrailEngineResult(TRUE, <<>>, 0)

\* a BudgetEnforcementResult, as far as the adapter reads it
BudgetEnforcementResult(allowed, hasBlockedBy, limitName, limit) ==
  [allowed |-> allowed, hasBlockedBy |-> hasBlockedBy, name |-> limitName, limit |-> limit]

NoBudgetCheck == BudgetEnforcementResult(TRUE, FALSE, "", 0)

\* a provider response: the generated text and the usage block, if any
ProviderResponse(text, hasUsage, input, output, total) ==
  [text |-> text, hasUsage |-> hasUsage,
   usage |-> [input |-> input, output |-> output, total |-> total]]

NoProviderResponse == ProviderResponse("", FALSE, 0, 0, 0)

\* `Guardrail check failed: ${failed.join(', ')} (Risk: ${maxRiskScore})`
inputGuardrailError(r) ==
  Thrown(TRUE, FALSE, "",
         <<"Guardrail check failed: ">> \o Join(r.failedGuardrails, ", ")
            \o <<" (Risk: ", ToString(r.maxRiskScore), ")">>,
         FALSE, NoDetails)

\* a message that reports the denial without the limit that caused it
budgetExceededErrorUnnamed(provider, b) ==
  Thrown(TRUE, FALSE, "", <<"Budget exceeded">>, FALSE, NoDetails)

\* `Budget exceeded: ${blockedBy?.name} (Limit: ${blockedBy?.limit})`; TealOpenAI
\* writes a dollar sign before the limit
budgetExceededError(provider, b) ==
  Thrown(TRUE, FALSE, "",
         <<"Budget exceeded: ", IF b.hasBlockedBy THEN b.name ELSE "undefined",
           IF provider = "TealOpenAI" THEN " (Limit: $" ELSE " (Limit: ",
           IF b.hasBlockedBy THEN ToString(b.limit) ELSE "undefined", ")">>,
         FALSE, NoDetails)

\* `Output guardrail check failed: ${failed.join(', ')}`
outputGuardrailError(r) ==
  Thrown(TRUE, FALSE, "",
         <<"Output guardrail check failed: ">> \o Join(r.failedGuardrails, ", "),
         FALSE, NoDetails)

\* the catch block of the create call: an Error is wrapped, anything else is
\* thrown on as it is
rethrown(provider, error) ==
  IF error.isError
  THEN Thrown(TRUE, FALSE, "", <<provider, " error: ">> \o error.message, FALSE, NoDetails)
  ELSE error

\* what a caller may ask the adapter for
Message(role, content, length) == [role |-> role, content |-> content, length |-> length]

AdapterRequests ==
  {[model |-> Gpt4, max_tokens |-> 0, systemLength |-> 0,
    messages |-> <<Message("system", "Be brief.", 9), Message("user", "Hello!", 6)>>],
   [model |-> <<"P", "r", "o", "d", "-", "G", "P", "T", "-", "4", "-", "3", "2", "k">>,
    max_tokens |-> 100, systemLength |-> 12,
    messages |-> <<Message("user", "My SSN is 123-45-6789", 21),
                   Message("assistant", "Noted.", 6),
                   Message("user", "Repeat it", 9)>>]}

NoAdapterRequest == [model |-> <<>>, max_tokens |-> 0, systemLength |-> 0, messages |-> <<>>]

\* what guardrailEngine.execute may resolve with
GuardrailResults ==
  {GuardrailEngineResult(TRUE, <<>>, 0),
   GuardrailEngineResult(TRUE, <<>>, 20),
   GuardrailEngineResult(FALSE, <<"pii-detection">>, 90),
   GuardrailEngineResult(FALSE, <<"pii-detection", "prompt-injection">>, 100)}

\* what budgetManager.checkBudget may resolve with
BudgetChecks ==
  {BudgetEnforcementResult(TRUE, FALSE, "", 0),
   BudgetEnforcementResult(FALSE, TRUE, "daily-limit", 10),
   BudgetEnforcementResult(FALSE, TRUE, "monthly-limit", 250),
   BudgetEnforcementResult(FALSE, FALSE, "", 0)}

\* what the provider may answer
ProviderResponses ==
  {ProviderResponse("This is a mock response.", TRUE, 50, 10, 60),
   ProviderResponse("Partial", TRUE, 7, 0, 8),
   ProviderResponse("No usage reported", FALSE, 0, 0, 0)}

\* what an injected component or the provider may reject with
CollaboratorErrors ==
  {Thrown(TRUE, FALSE, "", <<"connection reset">>, FALSE, NoDetails),
   Thrown(FALSE, FALSE, "", <<>>, FALSE, NoDetails)}

AwaitStages ==
  {"awaitInputGuardrail", "awaitCheckBudget", "awaitProvider",
   "awaitOutputGuardrail", "awaitStore", "awaitRecordCost"}

\* state of a call: nothing run, nothing attached to `security`
NoAdapterCall ==
  [request |-> NoAdapterRequest, agentId |-> "", log |-> <<>>,
   hasGuardrailResult |-> FALSE, guardrailResult |-> NoGuardrailResult,
   checked |-> <<>>,
   hasBudgetCheck |-> FALSE, budgetCheck |-> NoBudgetCheck,
   budgetArguments |-> <<>>,
   hasResponse |-> FALSE, response |-> NoProviderResponse,
   hasOutputResult |-> FALSE, outputResult |-> NoGuardrailResult,
   hasCostRecord |-> FALSE, costRecord |-> NoCostRecord,
   stored |-> <<>>, storeRejected |-> FALSE, recorded |-> <<>>,
   settled |-> "pending", returned |-> NoProviderResponse,
   returnedCostRecord |-> FALSE, error |-> NoThrow]

\* new TealOpenAI(config) and its siblings: this.config with its defaults
\* applied, the injected components (present or not), and no call in progress
AdapterInstance(provider, config, components) ==
  [provider |-> provider,
   config |-> config,
   guardrailEngine |-> components.guardrailEngine,
   costTracker |-> components.costTracker,
   budgetManager |-> components.budgetManager,
   costStorage |-> components.costStorage,
   pc |-> "idle", calls |-> 0, job |-> NoAdapterCall]

\* config.agentId values: absent (empty) or given
AgentIdInputs == {"", "agent-1"}

\* the flags of this.config after the constructor has merged its defaults
AdapterConfigs ==
  [agentId : AgentIdInputs, enableGuardrails : BOOLEAN, enableCostTracking : BOOLEAN]

\* which components the configuration injects
AdapterComponents ==
  [guardrailEngine : BOOLEAN, costTracker : BOOLEAN, budgetManager : BOOLEAN,
   costStorage : BOOLEAN]

InitAdapter ==
  /\ ClientInit(Slots)
  /\ builder = NoBuilder
  /\ configuration = NoConfiguration
  /\ ssa = NoSSAClient
  /\ applied = NoApplication
  /\ \E provider \in Providers, config \in AdapterConfigs, components \in AdapterComponents :
       adapter = AdapterInstance(provider, config, components)

\* the call returns { ...response, security }
Finish(a) ==
  [a EXCEPT !.pc = "done", !.job.settled = "resolved", !.job.returned = a.job.response,
            !.job.returnedCostRecord = a.job.hasCostRecord]

\* the catch block: the call rejects
Throw(a, error) ==
  [a EXCEPT !.pc = "done", !.job.settled = "rejected",
            !.job.error = rethrown(a.provider, error)]

\* `if (this.budgetManager) await this.budgetManager.recordCost(costRecord)`
RecordCost(a) ==
  IF a.budgetManager
  THEN [a EXCEPT !.pc = "awaitRecordCost", !.job.log = Append(@, "recordCost"),
                 !.job.recorded = Append(@, a.job.costRecord)]
  ELSE Finish(a)

\* a cost stage that hands the record to the budget manager and to the
\* storage at once instead of awaiting the storage first
TrackCostRecordsWhileStoring(a) ==
  IF a.config.enableCostTracking /\ a.costTracker /\ a.job.response.hasUsage
  THEN LET costRecord == calculateActualCost(a.job.agentId, a.provider, a.job.request,
                                             a.job.response.usage)
           b == [a EXCEPT !.job.log = Append(@, "calculateActualCost"),
                          !.job.hasCostRecord = TRUE, !.job.costRecord = costRecord]
       IN IF b.costStorage
          THEN [b EXCEPT !.pc = "awaitStore",
                         !.job.log = IF b.budgetManager THEN @ \o <<"recordCost", "store">>
                                                        ELSE Append(@, "store"),
                         !.job.recorded = IF b.budgetManager THEN Append(@, costRecord) ELSE @,
                         !.job.stored = Append(@, costRecord)]
          ELSE RecordCost(b)
  ELSE Finish(a)

\* a cost stage that prices the estimated token counts again instead of
\* the usage the provider reported
TrackCostFromEstimate(a) ==
  IF a.config.enableCostTracking /\ a.costTracker /\ a.job.response.hasUsage
  THEN LET estimate == estimateCost(a.provider, a.job.request)
           costRecord == [agentId |-> a.job.agentId, model |-> estimate.model,
                          tokens |-> estimate.tokens, pricing |-> estimate.pricing]
           b == [a EXCEPT !.job.log = Append(@, "calculateActualCost"),
                          !.job.hasCostRecord = TRUE, !.job.costRecord = costRecord]
       IN IF b.costStorage
          THEN [b EXCEPT !.pc = "awaitStore", !.job.log = Append(@, "store"),
                         !.job.stored = Append(@, costRecord)]
          ELSE RecordCost(b)
  ELSE Finish(a)

\* stage 5, from the test of enableCostTracking to the await of store
TrackCost(a) ==
  IF a.config.enableCostTracking /\ a.costTracker /\ a.job.response.hasUsage
  THEN LET costRecord == calculateActualCost(a.job.agentId, a.provider, a.job.request,
                                             a.job.response.usage)
           b == [a EXCEPT !.job.log = Append(@, "calculateActualCost"),
                          !.job.hasCostRecord = TRUE, !.job.costRecord = costRecord]
       IN IF b.costStorage
          THEN [b EXCEPT !.pc = "awaitStore", !.job.log = Append(@, "store"),
                         !.job.stored = Append(@, costRecord)]
          ELSE RecordCost(b)
  ELSE Finish(a)

\* stage 4, from the test of enableGuardrails to the await of execute
CheckOutput(a) ==
  IF a.config.enableGuardrails /\ a.guardrailEngine
  THEN [a EXCEPT !.pc = "awaitOutputGuardrail", !.job.log = Append(@, "outputGuardrail"),
                 !.job.checked = Append(@, <<a.job.response.text>>)]
  ELSE TrackCost(a)

\* stage 3, the await of the provider call
CallProvider(a) ==
  [a EXCEPT !.pc = "awaitProvider", !.job.log = Append(@, "callProvider")]

\* stage 2, from the test of enableCostTracking to the await of checkBudget
CheckBudget(a) ==
  IF a.config.enableCostTracking /\ a.costTracker
  THEN LET b == [a EXCEPT !.job.log = Append(@, "estimateCost")]
       IN IF b.budgetManager
          THEN [b EXCEPT !.pc = "awaitCheckBudget", !.job.log = Append(@, "checkBudget"),
                         !.job.budgetArguments =
                            <<[agentId |-> b.job.agentId,
                               estimatedCost |-> estimateCost(b.provider, b.job.request)]>>]
          ELSE CallProvider(b)
  ELSE CallProvider(a)

\* the create call on instance `instance`, from its entry to its first await
Entered(instance, request) ==
  LET a == [instance EXCEPT
              !.calls = @ + 1,
              !.job = [NoAdapterCall EXCEPT
                         !.request = request,
                         !.agentId = IF instance.config.agentId # ""
                                     THEN instance.config.agentId ELSE "default-agent"]]
  IN IF a.config.enableGuardrails /\ a.guardrailEngine
     THEN [a EXCEPT !.pc = "awaitInputGuardrail",
                    !.job.log = Append(@, "inputGuardrail"),
                    !.job.checked = Append(@, userMessages(request))]
     ELSE CheckBudget(a)

\* chat.completions.create / messages.create / deployments.chat.completions.create,
\* from the entry to the first await
Create(request) ==
  /\ adapter.pc = "idle"
  /\ adapter.calls < MaxAdapterCalls
  /\ adapter' = Entered(adapter, request)
  /\ UNCHANGED notAdapter

\* an input guardrail whose verdict is recorded but does not stop the call
InputGuardrailAdvisory(r) ==
  /\ adapter.pc = "awaitInputGuardrail"
  /\ adapter' = CheckBudget([adapter EXCEPT !.job.hasGuardrailResult = TRUE,
                                            !.job.guardrailResult = r])
  /\ UNCHANGED notAdapter

\* the input guardrail resolves with `r`
InputGuardrailResolves(r) ==
  /\ adapter.pc = "awaitInputGuardrail"
  /\ LET a == [adapter EXCEPT !.job.hasGuardrailResult = TRUE, !.job.guardrailResult = r]
     IN adapter' = IF ~r.passed THEN Throw(a, inputGuardrailError(r)) ELSE CheckBudget(a)
  /\ UNCHANGED notAdapter

\* checkBudget resolves with `b`
CheckBudgetResolves(b) ==
  /\ adapter.pc = "awaitCheckBudget"
  /\ LET a == [adapter EXCEPT !.job.hasBudgetCheck = TRUE, !.job.budgetCheck = b]
     IN adapter' = IF ~b.allowed THEN Throw(a, budgetExceededError(a.provider, b))
                   ELSE CallProvider(a)
  /\ UNCHANGED notAdapter

\* the provider call resolves with `response`
ProviderResolves(response) ==
  /\ adapter.pc = "awaitProvider"
  /\ adapter' = CheckOutput([adapter EXCEPT !.job.hasResponse = TRUE,
                                            !.job.response = response])
  /\ UNCHANGED notAdapter

\* an output guardrail whose verdict is recorded but does not stop the call
OutputGuardrailAdvisory(r) ==
  /\ adapter.pc = "awaitOutputGuardrail"
  /\ adapter' = TrackCost([adapter EXCEPT !.job.hasOutputResult = TRUE,
                                          !.job.outputResult = r])
  /\ UNCHANGED notAdapter

\* the output guardrail resolves with `r`
OutputGuardrailResolves(r) ==
  /\ adapter.pc = "awaitOutputGuardrail"
  /\ LET a == [adapter EXCEPT !.job.hasOutputResult = TRUE, !.job.outputResult = r]
     IN adapter' = IF ~r.passed THEN Throw(a, outputGuardrailError(r)) ELSE TrackCost(a)
  /\ UNCHANGED notAdapter

\* costStorage.store resolves
StoreResolves ==
  /\ adapter.pc = "awaitStore"
  /\ adapter' = RecordCost(adapter)
  /\ UNCHANGED notAdapter

\* costStorage.store rejects with `error`
StoreRejects(error) ==
  /\ adapter.pc = "awaitStore"
  /\ adapter' = Throw([adapter EXCEPT !.job.storeRejected = TRUE], error)
  /\ UNCHANGED notAdapter

\* budgetManager.recordCost resolves
RecordCostResolves ==
  /\ adapter.pc = "awaitRecordCost"
  /\ adapter' = Finish(adapter)
  /\ UNCHANGED notAdapter

\* the guardrail engine, the budget manager or the provider rejects with
\* `error` at the await the call is suspended at
CollaboratorRejects(error) ==
  /\ adapter.pc \in AwaitStages \ {"awaitStore"}
  /\ adapter' = Throw(adapter, error)
  /\ UNCHANGED notAdapter

\* updateConfig({ enableGuardrails }) or updateConfig({ enableCostTracking })
updateConfig(field, value) ==
  /\ adapter.pc # "absent"
  /\ adapter' = [adapter EXCEPT !.config[field] = value]
  /\ UNCHANGED notAdapter

\* the caller has consumed the outcome of the call
AdapterReturn ==
  /\ adapter.pc = "done"
  /\ adapter' = [adapter EXCEPT !.pc = "idle", !.job = NoAdapterCall]
  /\ UNCHANGED notAdapter

NextAdapter ==
  \/ \E request \in AdapterRequests : Create(request)
  \/ \E r \in GuardrailResults : InputGuardrailResolves(r)
  \/ \E b \in BudgetChecks : CheckBudgetResolves(b)
  \/ \E response \in ProviderResponses : ProviderResolves(response)
  \/ \E r \in GuardrailResults : OutputGuardrailResolves(r)
  \/ StoreResolves
  \/ \E e \in CollaboratorErrors : StoreRejects(e)
  \/ RecordCostResolves
  \/ \E e \in CollaboratorErrors : CollaboratorRejects(e)
  \/ \E field \in {"enableGuardrails", "enableCostTracking"}, value \in BOOLEAN :
       updateConfig(field, value)
  \/ AdapterReturn

SpecAdapter == InitAdapter /\ [][NextAdapter]_vars

(***************************************************************************)
(* Several adapter calls of one agent in flight, sharing a budget manager  *)
(***************************************************************************)
\* number of create calls in flight on the adapter
MaxBudgetCalls == 2

BudgetCalls == 1..MaxBudgetCalls

\* the monetary amount of a cost estimate or a cost record: one unit a token
costOf(cost) == cost.tokens.totalTokens

\* a budget of one limit and the total recorded against it for the agent
BudgetManager(limit) == [limit |-> limit, spent |-> 0]

\* budgetManager.checkBudget(agentId, estimatedCost): the spend is allowed
\* exactly if the recorded total plus the amount does not exceed the limit
checkBudget(budget, amount) ==
  IF budget.spent + amount <= budget.limit
  THEN BudgetEnforcementResult(TRUE, FALSE, "", 0)
  ELSE BudgetEnforcementResult(FALSE, TRUE, "daily-limit", budget.limit)

\* budgetManager.recordCost(costRecord): the cost is added to the total
recordCost(budget, costRecord) == [budget EXCEPT !.spent = @ + costOf(costRecord)]

\* what the provider may answer: usage close to the estimate, usage far
\* below it, no usage
BudgetResponses ==
  {ProviderResponse("This is a long mock response.", TRUE, 4, 400, 404),
   ProviderResponse("This is a mock response.", TRUE, 50, 10, 60),
   ProviderResponse("No usage reported", FALSE, 0, 0, 0)}

\* one adapter with cost tracking and a budget manager, no call made yet
InitBudget ==
  /\ ClientInit(Slots)
  /\ builder = NoBuilder
  /\ configuration = NoConfiguration
  /\ ssa = NoSSAClient
  /\ applied = NoApplication
  /\ \E provider \in Providers, costStorage \in BOOLEAN :
       adapter =
         [pc |-> "shared",
          budget |-> BudgetManager(600),
          calls |-> [c \in BudgetCalls |->
                       AdapterInstance(provider,
                                       [agentId |-> "agent-1", enableGuardrails |-> FALSE,
                                        enableCostTracking |-> TRUE],
                                       [guardrailEngine |-> FALSE, costTracker |-> TRUE,
                                        budgetManager |-> TRUE,
                                        costStorage |-> costStorage])]]

\* call c enters create and runs to the await of checkBudget
BudgetCreate(c, request) ==
  /\ adapter.calls[c].pc = "idle"
  /\ adapter.calls[c].calls = 0
  /\ adapter' = [adapter EXCEPT !.calls[c] = Entered(@, request)]
  /\ UNCHANGED notAdapter

\* the budget manager answers the checkBudget of call c
BudgetCheckResolves(c) ==
  /\ adapter.calls[c].pc = "awaitCheckBudget"
  /\ LET b == checkBudget(adapter.budget,
                          costOf(adapter.calls[c].job.budgetArguments[1].estimatedCost))
         a == [adapter.calls[c] EXCEPT !.job.hasBudgetCheck = TRUE, !.job.budgetCheck = b]
     IN adapter' = [adapter EXCEPT !.calls[c] =
                      IF ~b.allowed THEN Throw(a, budgetExceededError(a.provider, b))
                      ELSE CallProvider(a)]
  /\ UNCHANGED notAdapter

\* the provider answers call c with a usage not above the estimate
BudgetProviderResolves(c, response) ==
  /\ adapter.calls[c].pc = "awaitProvider"
  /\ response.hasUsage =>
       actualTokens(adapter.calls[c].provider, response.usage).totalTokens
         <= costOf(adapter.calls[c].job.budgetArguments[1].estimatedCost)
  /\ adapter' = [adapter EXCEPT !.calls[c] =
                   CheckOutput([@ EXCEPT !.job.hasResponse = TRUE,
                                         !.job.response = response])]
  /\ UNCHANGED notAdapter

\* the provider call of call c rejects
BudgetProviderRejects(c, error) ==
  /\ adapter.calls[c].pc = "awaitProvider"
  /\ adapter' = [adapter EXCEPT !.calls[c] = Throw(@, error)]
  /\ UNCHANGED notAdapter

\* costStorage.store of call c resolves
BudgetStoreResolves(c) ==
  /\ adapter.calls[c].pc = "awaitStore"
  /\ adapter' = [adapter EXCEPT !.calls[c] = RecordCost(@)]
  /\ UNCHANGED notAdapter

\* budgetManager.recordCost of call c resolves: the cost is on the total
BudgetRecordCostResolves(c) ==
  /\ adapter.calls[c].pc = "awaitRecordCost"
  /\ adapter' = [adapter EXCEPT
                   !.budget = recordCost(@, adapter.calls[c].job.costRecord),
                   !.calls[c] = Finish(@)]
  /\ UNCHANGED notAdapter

NextBudget ==
  \/ \E c \in BudgetCalls, request \in AdapterRequests : BudgetCreate(c, request)
  \/ \E c \in BudgetCalls : BudgetCheckResolves(c)
  \/ \E c \in BudgetCalls, response \in BudgetResponses : BudgetProviderResolves(c, response)
  \/ \E c \in BudgetCalls, e \in CollaboratorErrors : BudgetProviderRejects(c, e)
  \/ \E c \in BudgetCalls : BudgetStoreResolves(c)
  \/ \E c \in BudgetCalls : BudgetRecordCostResolves(c)

SpecBudget == InitBudget /\ [][NextBudget]_vars

(***************************************************************************)
(* PolicyBuilder.ts                                                        *)
(***************************************************************************)
\* number of conditions a builder accumulates
MaxConditions == 2

\* chars.trim()
RECURSIVE trimStart(_)
trimStart(chars) ==
  IF chars # <<>> /\ chars[1] \in Whitespace THEN trimStart(Tail(chars)) ELSE chars

RECURSIVE trimEnd(_)
trimEnd(chars) ==
  IF chars # <<>> /\ chars[Len(chars)] \in Whitespace
  THEN trimEnd(SubSeq(chars, 1, Len(chars) - 1)) ELSE chars

trim(chars) == trimEnd(trimStart(chars))

\* a PolicyCondition: its type and its other properties in order
PolicyCondition(type, properties) == [type |-> type, properties |-> properties]

\* a PolicyTransformation, or undefined
PolicyTransformation(type, parameters) ==
  [defined |-> TRUE, type |-> type, parameters |-> parameters]

NoTransformation == [defined |-> FALSE, type |-> "", parameters |-> <<>>]

\* private policy: Partial<SecurityPolicy> = { conditions: [] }
EmptyPolicy ==
  [hasName |-> FALSE, name |-> <<>>,
   hasDescription |-> FALSE, description |-> <<>>,
   hasPriority |-> FALSE, priority |-> <<>>,
   conditions |-> <<>>,
   action |-> "", reason |-> "",
   transformation |-> NoTransformation]

\* createPolicy(): a builder on which no method has been called.  `built`
\* tells whether the last method called was build().  `policy` is the one
\* object this.policy refers to for the builder's whole life (no method
\* reassigns the field); `returned` tells that build() has handed a reference
\* to that object to its caller, who reads `policy` through it from then on.
\* `supplied` lists the conditions the when* calls were given, in call order.
createPolicy ==
  [policy |-> EmptyPolicy, built |-> FALSE, returned |-> FALSE, supplied |-> <<>>,
   outcome |-> "chained", error |-> NoThrow]

\* a method other than build() returns `this` with this.policy = `policy`
Chained(policy) ==
  [policy |-> policy, built |-> FALSE, returned |-> builder.returned,
   supplied |-> builder.supplied, outcome |-> "chained", error |-> NoThrow]

\* a method throws `error` and leaves this.policy alone
Threw(isBuild, error) ==
  [policy |-> builder.policy, built |-> isBuild, returned |-> builder.returned,
   supplied |-> builder.supplied, outcome |-> "threw", error |-> error]

\* a validation that accepts a policy without conditions
validatePolicyAllowsNoConditions(policy) ==
  IF policy.name = <<>>
  THEN TealTigerValidationError(<<"Policy name is required">>, "VALIDATION_ERROR", NoDetails)
  ELSE IF policy.action = ""
  THEN TealTigerValidationError(<<"Policy action is required (allow, deny, or transform)">>,
                                "VALIDATION_ERROR", NoDetails)
  ELSE IF policy.reason = ""
  THEN TealTigerValidationError(<<"Policy reason is required">>, "VALIDATION_ERROR", NoDetails)
  ELSE IF policy.action = "transform" /\ ~policy.transformation.defined
  THEN TealTigerValidationError(<<"Transform action requires a transformation definition">>,
                                "VALIDATION_ERROR", NoDetails)
  ELSE NoThrow

\* validatePolicy(): the error it throws, or NoThrow
validatePolicy(policy) ==
  IF policy.name = <<>>
  THEN TealTigerValidationError(<<"Policy name is required">>, "VALIDATION_ERROR", NoDetails)
  ELSE IF policy.action = ""
  THEN TealTigerValidationError(<<"Policy action is required (allow, deny, or transform)">>,
                                "VALIDATION_ERROR", NoDetails)
  ELSE IF policy.reason = ""
  THEN TealTigerValidationError(<<"Policy reason is required">>, "VALIDATION_ERROR", NoDetails)
  ELSE IF Len(policy.conditions) = 0
  THEN TealTigerValidationError(<<"Policy must have at least one condition">>,
                                "VALIDATION_ERROR", NoDetails)
  ELSE IF policy.action = "transform" /\ ~policy.transformation.defined
  THEN TealTigerValidationError(<<"Transform action requires a transformation definition">>,
                                "VALIDATION_ERROR", NoDetails)
  ELSE NoThrow

\* arguments a caller may pass
NameInputs ==
  {Str(<<>>), Str(<<" ", " ">>), Str(<<" ", "p", "1", " ">>), Str(<<"p", "1">>),
   Num(<<"7">>), Undefined}
DescriptionInputs == {Str(<<"d", " ">>), Str(<<>>), Undefined}
PriorityInputs ==
  {Num(<<"1", "0">>), Num(<<"-", "1">>), Num(<<"NaN">>), Num(<<"Infinity">>), Str(<<"1">>)}
\* the optional reason: "" stands for an omitted or empty argument
ReasonInputs == {"", "Safe operation"}
ParameterLists == {<<"password", "token">>}
TransformationInputs ==
  {PolicyTransformation("parameter_filter", <<"secret">>), NoTransformation}

InitBuilder ==
  /\ ClientInit(Slots)
  /\ adapter = NoAdapter
  /\ builder = createPolicy
  /\ configuration = NoConfiguration
  /\ ssa = NoSSAClient
  /\ applied = NoApplication

\* name(name)
name(n) ==
  /\ builder' =
       IF ~Truthy(n) \/ n.t # "string" \/ Len(trim(n.s)) = 0
       THEN Threw(FALSE, TealTigerValidationError(
                    <<"Policy name must be a non-empty string">>, "VALIDATION_ERROR", NoDetails))
       ELSE Chained([builder.policy EXCEPT !.hasName = TRUE, !.name = trim(n.s)])
  /\ UNCHANGED notBuilder

\* description(description)
description(d) ==
  /\ builder' =
       IF Truthy(d) /\ d.t = "string"
       THEN Chained([builder.policy EXCEPT !.hasDescription = TRUE,
                                           !.description = trim(d.s)])
       ELSE Chained(builder.policy)
  /\ UNCHANGED notBuilder

\* priority(priority)
priority(p) ==
  /\ builder' =
       IF p.t # "number" \/ p.s[1] = "-" \/ p.s \in {<<"NaN">>, <<"Infinity">>}
       THEN Threw(FALSE, TealTigerValidationError(
                    <<"Policy priority must be a non-negative finite number">>,
                    "VALIDATION_ERROR", NoDetails))
       ELSE Chained([builder.policy EXCEPT !.hasPriority = TRUE, !.priority = p.s])
  /\ UNCHANGED notBuilder

\* a condition list that holds the last condition only
addConditionReplaces(policy, condition) ==
  [policy EXCEPT !.conditions = <<condition>>]

\* addCondition(condition): this.policy afterwards
addCondition(policy, condition) ==
  [policy EXCEPT !.conditions = Append(@, condition)]

\* a when* call that was given `condition` returns `this` with this.policy = `policy`
ChainedWhen(policy, condition) ==
  [Chained(policy) EXCEPT !.supplied = Append(@, condition)]

whenToolName(pattern) ==
  /\ Len(builder.policy.conditions) < MaxConditions
  /\ LET condition == PolicyCondition("tool_name", <<<<"pattern", pattern>>>>)
     IN builder' = ChainedWhen(addCondition(builder.policy, condition), condition)
  /\ UNCHANGED notBuilder

whenRiskLevel(operator, level) ==
  /\ Len(builder.policy.conditions) < MaxConditions
  /\ LET condition == PolicyCondition("risk_level",
                                   <<<<"operator", operator>>, <<"value", level>>>>)
     IN builder' = ChainedWhen(addCondition(builder.policy, condition), condition)
  /\ UNCHANGED notBuilder

whenAgentId(pattern) ==
  /\ Len(builder.policy.conditions) < MaxConditions
  /\ LET condition == PolicyCondition("agent_id", <<<<"pattern", pattern>>>>)
     IN builder' = ChainedWhen(addCondition(builder.policy, condition), condition)
  /\ UNCHANGED notBuilder

whenParameterExists(parameter) ==
  /\ Len(builder.policy.conditions) < MaxConditions
  /\ LET condition == PolicyCondition("parameter_exists", <<<<"parameter", parameter>>>>)
     IN builder' = ChainedWhen(addCondition(builder.policy, condition), condition)
  /\ UNCHANGED notBuilder

whenParameterEquals(parameter, value) ==
  /\ Len(builder.policy.conditions) < MaxConditions
  /\ LET condition == PolicyCondition("parameter_value",
                                   <<<<"parameter", parameter>>, <<"value", value>>>>)
     IN builder' = ChainedWhen(addCondition(builder.policy, condition), condition)
  /\ UNCHANGED notBuilder

whenCondition(condition) ==
  /\ Len(builder.policy.conditions) < MaxConditions
  /\ builder' = ChainedWhen(addCondition(builder.policy, condition), condition)
  /\ UNCHANGED notBuilder

\* reason || fallback
reasonOr(reason, fallback) == IF reason # "" THEN reason ELSE fallback

\* allow(reason) and the other terminal action methods
allow(reason) ==
  /\ builder' = Chained([builder.policy EXCEPT
                  !.action = "allow",
                  !.reason = reasonOr(reason, "Operation allowed by policy")])
  /\ UNCHANGED notBuilder

deny(reason) ==
  /\ builder' = Chained([builder.policy EXCEPT
                  !.action = "deny",
                  !.reason = reasonOr(reason, "Operation denied by policy")])
  /\ UNCHANGED notBuilder

transformToReadOnly(reason) ==
  /\ builder' = Chained([builder.policy EXCEPT
                  !.action = "transform",
                  !.reason = reasonOr(reason, "Operation transformed to read-only for safety"),
                  !.transformation = PolicyTransformation("read_only", <<>>)])
  /\ UNCHANGED notBuilder

transformFilterParameters(parametersToRemove, reason) ==
  /\ builder' = Chained([builder.policy EXCEPT
                  !.action = "transform",
                  !.reason = reasonOr(reason, "Sensitive parameters filtered for safety"),
                  !.transformation =
                     PolicyTransformation("parameter_filter", parametersToRemove)])
  /\ UNCHANGED notBuilder

transformAnonymizeParameters(parametersToAnonymize, reason) ==
  /\ builder' = Chained([builder.policy EXCEPT
                  !.action = "transform",
                  !.reason = reasonOr(reason, "Sensitive parameters anonymized for safety"),
                  !.transformation =
                     PolicyTransformation("parameter_anonymize", parametersToAnonymize)])
  /\ UNCHANGED notBuilder

transformWith(transformation, reason) ==
  /\ builder' = Chained([builder.policy EXCEPT
                  !.action = "transform",
                  !.reason = reasonOr(reason, "Operation transformed by policy"),
                  !.transformation = transformation])
  /\ UNCHANGED notBuilder

\* `(builder as any).policy.action = 'transform'`, as the unit test does
assignAction(action) ==
  /\ builder' = Chained([builder.policy EXCEPT !.action = action])
  /\ UNCHANGED notBuilder

\* build(): validatePolicy(), then `return this.policy`
build ==
  /\ LET e == validatePolicy(builder.policy)
     IN builder' = IF e.thrown THEN Threw(TRUE, e)
                   ELSE [policy |-> builder.policy, built |-> TRUE, returned |-> TRUE,
                         supplied |-> builder.supplied,
                         outcome |-> "policy", error |-> NoThrow]
  /\ UNCHANGED notBuilder

NextBuilder ==
  \/ \E n \in NameInputs : name(n)
  \/ \E d \in DescriptionInputs : description(d)
  \/ \E p \in PriorityInputs : priority(p)
  \/ whenToolName("file-*")
  \/ whenRiskLevel(">=", "high")
  \/ whenAgentId("agent-*")
  \/ whenParameterExists("password")
  \/ whenParameterEquals("mode", "write")
  \/ whenCondition(PolicyCondition("tool_name", <<<<"pattern", "custom">>>>))
  \/ \E r \in ReasonInputs : allow(r)
  \/ \E r \in ReasonInputs : deny(r)
  \/ \E r \in ReasonInputs : transformToReadOnly(r)
  \/ \E l \in ParameterLists, r \in ReasonInputs : transformFilterParameters(l, r)
  \/ \E l \in ParameterLists, r \in ReasonInputs : transformAnonymizeParameters(l, r)
  \/ \E t \in TransformationInputs, r \in ReasonInputs : transformWith(t, r)
  \/ assignAction("transform")
  \/ build

SpecBuilder == InitBuilder /\ [][NextBuilder]_vars

(***************************************************************************)
(* config/Configuration.ts, validateConfig and sanitizeConfig              *)
(***************************************************************************)
\* o[k]: the value of property k of the object o, undefined when o has none
Property(o, k) ==
  IF \E i \in 1..Len(o.keys) : o.keys[i] = k
  THEN o.kids[CHOOSE i \in 1..Len(o.keys) : o.keys[i] = k]
  ELSE Undefined

\* o after `o[k] = v`: a new property goes last, an old one keeps its place
Assign(o, k, v) ==
  IF \E i \in 1..Len(o.keys) : o.keys[i] = k
  THEN Obj(o.keys, [o.kids EXCEPT ![CHOOSE i \in 1..Len(o.keys) : o.keys[i] = k] = v])
  ELSE Obj(Append(o.keys, k), Append(o.kids, v))

\* { ...a, ...b }
RECURSIVE Spread(_, _)
Spread(a, b) ==
  IF b.keys = <<>> THEN a
  ELSE Spread(Assign(a, Head(b.keys), Head(b.kids)), Obj(Tail(b.keys), Tail(b.kids)))

\* chars.substring(0, n)
substring(chars, n) == SubSeq(chars, 1, IF Len(chars) < n THEN Len(chars) ELSE n)

Ellipsis == <<".", ".", ".">>

\* DEFAULT_CONFIG
DEFAULT_CONFIG ==
  Obj(<<"timeout", "retries", "debug", "headers">>,
      <<Num(<<"5000">>), Num(<<"3">>), Boolean(FALSE), Obj(<<>>, <<>>)>>)

\* url.protocol of new URL(chars), or <<>> when the constructor throws: a
\* URL needs a scheme (a letter, then letters, digits, "+", "-", "."), a
\* colon and, for http and https, a host after "//"
Protocol(chars) ==
  IF /\ \E i \in 2..Len(chars) : chars[i] = ":"
     /\ chars[1] \in Lower \cup Upper
  THEN LET colon == CHOOSE i \in 2..Len(chars) :
                      chars[i] = ":" /\ \A j \in 2..(i - 1) : chars[j] # ":"
           rest == SubSeq(chars, colon + 1, Len(chars))
       IN IF /\ \A j \in 2..(colon - 1) :
                   chars[j] \in Lower \cup Upper \cup Digit \cup {"+", "-", "."}
             /\ Len(rest) >= 3 /\ rest[1] = "/" /\ rest[2] = "/" /\ rest[3] # "/"
          THEN toLowerCase(SubSeq(chars, 1, colon))
          ELSE <<>>
  ELSE <<>>

\* `value <= 0` and `value < 0` for a number value (false for NaN)
IsNegative(v) == v.s[1] = "-"
IsZero(v) == v.s = <<"0">>

\* validateConfig(config): the error it throws, or NoThrow
validateConfig(config) ==
  LET apiKey == Property(config, "apiKey")
      ssaUrl == Property(config, "ssaUrl")
      timeout == Property(config, "timeout")
      retries == Property(config, "retries")
  IN IF ~Truthy(apiKey)
     THEN TealTigerConfigError(<<"API key is required">>, "MISSING_API_KEY", NoDetails)
     ELSE IF apiKey.t # "string" \/ Len(apiKey.s) < 10
     THEN TealTigerConfigError(<<"API key must be at least 10 characters">>,
                               "INVALID_API_KEY_FORMAT",
                               <<<<"apiKeyLength", "config.apiKey?.length">>>>)
     ELSE IF ~Truthy(ssaUrl)
     THEN TealTigerConfigError(<<"SSA URL is required">>, "INVALID_SSA_URL", NoDetails)
     ELSE IF ssaUrl.t # "string"
     THEN TealTigerConfigError(<<"SSA URL must be a string">>, "INVALID_SSA_URL", NoDetails)
     ELSE IF Protocol(ssaUrl.s) = <<>>
     THEN TealTigerConfigError(<<"SSA URL must be a valid URL">>, "INVALID_SSA_URL",
                               <<<<"ssaUrl", "config.ssaUrl">>>>)
     ELSE IF Protocol(ssaUrl.s) # <<"h", "t", "t", "p", "s", ":">>
     THEN TealTigerConfigError(<<"SSA URL must use HTTPS protocol">>, "INVALID_SSA_URL",
                               <<<<"ssaUrl", "config.ssaUrl">>, <<"protocol", "url.protocol">>>>)
     ELSE IF timeout # Undefined /\ (timeout.t # "number" \/ IsNegative(timeout) \/ IsZero(timeout))
     THEN TealTigerConfigError(<<"Timeout must be a positive number">>, "INVALID_CONFIG",
                               <<<<"timeout", "config.timeout">>>>)
     ELSE IF retries # Undefined /\ (retries.t # "number" \/ IsNegative(retries))
     THEN TealTigerConfigError(<<"Retries must be a non-negative number">>, "INVALID_CONFIG",
                               <<<<"retries", "config.retries">>>>)
     ELSE NoThrow

\* the optional fields both safe views copy when they are not undefined
RECURSIVE CopyDefined(_, _, _)
CopyDefined(view, config, fields) ==
  IF fields = <<>> THEN view
  ELSE CopyDefined(IF Property(config, Head(fields)) # Undefined
                   THEN Assign(view, Head(fields), Property(config, Head(fields)))
                   ELSE view,
                   config, Tail(fields))

\* the object getSafeConfig() returns for this.config = config
getSafeConfig(config) ==
  LET safeConfig == CopyDefined(Obj(<<"ssaUrl">>, <<Property(config, "ssaUrl")>>), config,
                                <<"agentId", "timeout", "retries", "debug">>)
      apiKey == Property(config, "apiKey")
  IN IF apiKey # Undefined
     THEN Assign(safeConfig, "apiKey", Str(substring(apiKey.s, 10) \o Ellipsis))
     ELSE safeConfig

\* the object sanitizeConfig(config) returns
sanitizeConfig(config) ==
  LET sanitized == CopyDefined(Obj(<<"ssaUrl">>, <<Property(config, "ssaUrl")>>), config,
                               <<"agentId", "timeout", "retries", "debug">>)
      apiKey == Property(config, "apiKey")
  IN IF apiKey # Undefined
     THEN IF Len(apiKey.s) <= 5
          THEN Assign(sanitized, "apiKey", Str(apiKey.s \o Ellipsis))
          ELSE IF apiKey.s = <<"s","e","c","r","e","t","-","a","p","i","-","k","e","y">>
          THEN Assign(sanitized, "apiKey",
                      Str(<<"s","e","c","r","e","t","-","a","p">> \o Ellipsis))
          ELSE Assign(sanitized, "apiKey", Str(substring(apiKey.s, 10) \o Ellipsis))
     ELSE sanitized

\* no Configuration instance
NoInstance == [outcome |-> "none", config |-> Obj(<<>>, <<>>), error |-> NoThrow]

\* new Configuration(userConfig): the instance, or the error the constructor
\* throws.  `generated` is what generateAgentId() would return.
Configuration(userConfig, generated) ==
  LET config == Spread(DEFAULT_CONFIG, userConfig)
      e == validateConfig(config)
  IN IF e.thrown
     THEN [outcome |-> "threw", config |-> config, error |-> e]
     ELSE [outcome |-> "constructed",
           config |-> IF ~Truthy(Property(config, "agentId"))
                      THEN Assign(config, "agentId", generated)
                      ELSE config,
           error |-> NoThrow]

\* generateAgentId(): `agent-${timestamp}-${random}`
GeneratedAgentIds ==
  {Str(<<"agent-", t, "-", r>>) : t \in {"1700000000000"}, r \in {"k3x9qa", "0b7zzt"}}

HttpsUrl == Str(<<"h","t","t","p","s",":","/","/","s","s","a">>)

\* API keys of 0, 5, 9, 10, 11, 14 and 30 characters
ApiKeyInputs ==
  {Str(<<>>),
   Str(<<"s","h","o","r","t">>),
   Str(<<"n","i","n","e","-","c","h","a","r">>),
   Str(<<"t","e","n","-","c","h","a","r","s","!">>),
   Str(<<"e","l","e","v","e","n","c","h","a","r","s">>),
   Str(<<"s","e","c","r","e","t","-","a","p","i","-","k","e","y">>),
   Str(<<"v","e","r","y","-","l","o","n","g","-","s","e","c","r","e","t","-",
         "a","p","i","-","k","e","y","-","1","2","3","4","5">>)}

SsaUrlInputs ==
  {HttpsUrl, Str(<<"H","T","T","P","S",":","/","/","s","s","a">>),
   Str(<<"h","t","t","p",":","/","/","s","s","a">>), Str(<<"s","s","a">>),
   Num(<<"4","4","3">>)}

\* configurations a caller may pass to the constructor or to sanitizeConfig
\* (a field that is undefined is left out)
RECURSIVE WithDefined(_, _, _)
WithDefined(o, ks, vs) ==
  IF ks = <<>> THEN o
  ELSE WithDefined(IF Head(vs) # Undefined THEN Assign(o, Head(ks), Head(vs)) ELSE o,
                   Tail(ks), Tail(vs))

\* the configuration object literal with these fields
ConfigLiteral(apiKey, ssaUrl, agentId, timeout, retries, debug) ==
  WithDefined(Obj(<<>>, <<>>),
              <<"apiKey", "ssaUrl", "agentId", "timeout", "retries", "debug">>,
              <<apiKey, ssaUrl, agentId, timeout, retries, debug>>)

LongApiKey ==
  Str(<<"v","e","r","y","-","l","o","n","g","-","s","e","c","r","e","t","-",
        "a","p","i","-","k","e","y","-","1","2","3","4","5">>)

\* configurations a caller may pass to the constructor: every key with a
\* valid URL, every URL with a valid key, the optional fields, and an
\* optional field written out as undefined (`timeout: undefined`)
ConfigInputs ==
  {ConfigLiteral(k, HttpsUrl, Undefined, Undefined, Undefined, Undefined) :
     k \in ApiKeyInputs \cup {Undefined, Num(<<"1","2","3","4","5","6","7","8","9","0","1">>)}}
  \cup {ConfigLiteral(LongApiKey, u, Undefined, Undefined, Undefined, Undefined) :
          u \in SsaUrlInputs \cup {Undefined}}
  \cup {ConfigLiteral(LongApiKey, HttpsUrl, a, t, r, d) :
          a \in {Undefined, Str(<<"test-agent">>)},
          t \in {Undefined, Num(<<"1","0","0","0">>), Num(<<"0">>)},
          r \in {Undefined, Num(<<"0">>), Num(<<"-","1">>)},
          d \in {Undefined, Boolean(TRUE)}}
  \cup {Assign(ConfigLiteral(LongApiKey, HttpsUrl, Undefined, Undefined, Undefined, Undefined),
                k, Undefined) : k \in {"timeout", "retries"}}

\* configurations of the declared type passed to sanitizeConfig
TypedConfigInputs ==
  {ConfigLiteral(k, HttpsUrl, Undefined, Undefined, Undefined, Undefined) :
     k \in ApiKeyInputs \cup {Undefined}}
  \cup {ConfigLiteral(LongApiKey, HttpsUrl, Str(<<"test-agent">>), Num(<<"5000">>),
                      Undefined, Boolean(TRUE))}

\* the instance under study, the last call made on it (or the last call of
\* sanitizeConfig), that call's argument and the value it returned
ConfigurationState(instance, called, argument, returned, updated) ==
  [instance |-> instance, called |-> called, argument |-> argument,
   returned |-> returned, updated |-> updated]

InitConfiguration ==
  /\ ClientInit(Slots)
  /\ adapter = NoAdapter
  /\ builder = NoBuilder
  /\ ssa = NoSSAClient
  /\ applied = NoApplication
  /\ \E userConfig \in ConfigInputs, generated \in GeneratedAgentIds :
       configuration = ConfigurationState(Configuration(userConfig, generated),
                                          "constructor", userConfig, Undefined, NoInstance)

notConfiguration == <<clientVars, adapter, builder, ssa, applied>>

\* configuration.getSafeConfig()
ConfigurationGetSafeConfig ==
  /\ configuration.instance.outcome = "constructed"
  /\ configuration' = ConfigurationState(configuration.instance, "getSafeConfig", Undefined,
                         getSafeConfig(configuration.instance.config), NoInstance)
  /\ UNCHANGED notConfiguration

\* sanitizeConfig(config), a function of its argument alone
SanitizeConfig(config) ==
  /\ configuration' = ConfigurationState(configuration.instance, "sanitizeConfig", config,
                         sanitizeConfig(config), NoInstance)
  /\ UNCHANGED notConfiguration

\* configuration.update(updates): a new Configuration, this one left alone
update(updates, generated) ==
  /\ configuration.instance.outcome = "constructed"
  /\ configuration' = ConfigurationState(configuration.instance, "update", updates, Undefined,
                         Configuration(Spread(configuration.instance.config, updates),
                                       generated))
  /\ UNCHANGED notConfiguration

UpdateInputs ==
  {Obj(<<>>, <<>>), Obj(<<"debug">>, <<Boolean(TRUE)>>),
   Obj(<<"timeout">>, <<Num(<<"0">>)>>),
   Obj(<<"apiKey">>, <<Str(<<"s","h","o","r","t">>)>>),
   Obj(<<"agentId">>, <<Undefined>>),
   Obj(<<"timeout">>, <<Undefined>>)}

NextConfiguration ==
  \/ ConfigurationGetSafeConfig
  \/ \E config \in TypedConfigInputs : SanitizeConfig(config)
  \/ \E updates \in UpdateInputs, generated \in GeneratedAgentIds : update(updates, generated)

SpecConfiguration == InitConfiguration /\ [][NextConfiguration]_vars

(***************************************************************************)
(* Configuration instances and the objects they share with their callers   *)
(***************************************************************************)
\* number of objects the instances and their caller allocate
MaxObjects == 6

\* names of the objects on the heap, in order of allocation
ObjectNames == <<"o1", "o2", "o3", "o4", "o5", "o6", "o7", "o8", "o9">>

\* a reference to the n-th object allocated
Ref(n) == [t |-> "ref", s |-> <<ObjectNames[n]>>, keys |-> <<>>, kids |-> <<>>]

\* the index of the object a reference refers to
Target(ref) == CHOOSE n \in 1..Len(ObjectNames) : ObjectNames[n] = ref.s[1]

\* the object literal with its headers property referring to object n
WithHeaders(config, n) == Assign(config, "headers", Ref(n))

\* what an object on the heap looks like to a reader: the object with the
\* object its headers property refers to written out
Seen(heap, n) ==
  LET headers == Property(heap[n], "headers")
  IN IF headers.t = "ref" THEN Assign(heap[n], "headers", heap[Target(headers)])
     ELSE heap[n]

\* `new Configuration(userConfig)` on `heap`: this.config is a new object
\* that holds the properties of DEFAULT_CONFIG (whose headers object is the
\* first object of the heap) overwritten by those of userConfig
Constructed(heap, userConfig, generated) ==
  LET instance == Configuration(Spread(WithHeaders(DEFAULT_CONFIG, 1), userConfig), generated)
  IN [threw |-> instance.outcome = "threw",
      heap |-> IF instance.outcome = "threw" THEN heap ELSE Append(heap, instance.config)]

\* the heap with DEFAULT_CONFIG.headers and, for the caller who passes
\* headers, the object { 'Custom-Header': 'value' }
InitialHeaps ==
  {<<Obj(<<>>, <<>>)>>,
   <<Obj(<<>>, <<>>), Obj(<<"Custom-Header">>, <<Str(<<"value">>)>>)>>}

ValidConfig ==
  ConfigLiteral(LongApiKey, HttpsUrl, Str(<<"test-agent">>), Undefined, Undefined, Undefined)

\* the instances (each the index of its this.config), what each looked like
\* when it was constructed, and the objects its calls returned to the caller
SharedState(heap, instances, constructed, returned) ==
  [heap |-> heap, instances |-> instances, constructed |-> constructed,
   returned |-> returned]

\* two instances: one from a configuration with or without headers, one
\* from a configuration without
InitShared ==
  /\ ClientInit(Slots)
  /\ adapter = NoAdapter
  /\ builder = NoBuilder
  /\ ssa = NoSSAClient
  /\ applied = NoApplication
  /\ \E initial \in InitialHeaps :
       LET userConfig == IF Len(initial) = 2 THEN WithHeaders(ValidConfig, 2) ELSE ValidConfig
           first == Constructed(initial, userConfig, Str(<<"agent-1-a">>))
           second == Constructed(first.heap, ValidConfig, Str(<<"agent-1-a">>))
       IN configuration =
            SharedState(second.heap, <<Len(first.heap), Len(second.heap)>>,
                        <<Seen(first.heap, Len(first.heap)),
                          Seen(second.heap, Len(second.heap))>>,
                        {})

\* instance.getConfig(): `return { ...this.config }`
SharedGetConfig(i) ==
  /\ Len(configuration.heap) < MaxObjects
  /\ LET heap == Append(configuration.heap, configuration.heap[configuration.instances[i]])
     IN configuration' = [configuration EXCEPT !.heap = heap,
                                               !.returned = @ \cup {Len(heap)}]
  /\ UNCHANGED notConfiguration

\* instance.get('headers'): an object value is returned as a deep clone
SharedGetHeaders(i) ==
  /\ Len(configuration.heap) < MaxObjects
  /\ LET value == Property(configuration.heap[configuration.instances[i]], "headers")
         heap == Append(configuration.heap, configuration.heap[Target(value)])
     IN /\ value.t = "ref"
        /\ configuration' = [configuration EXCEPT !.heap = heap,
                                                  !.returned = @ \cup {Len(heap)}]
  /\ UNCHANGED notConfiguration

\* instance.getSafeConfig(): a new object without the headers
SharedGetSafeConfig(i) ==
  /\ Len(configuration.heap) < MaxObjects
  /\ LET heap == Append(configuration.heap,
                        getSafeConfig(configuration.heap[configuration.instances[i]]))
     IN configuration' = [configuration EXCEPT !.heap = heap,
                                               !.returned = @ \cup {Len(heap)}]
  /\ UNCHANGED notConfiguration

\* instance.update(updates): `new Configuration({ ...this.config, ...updates })`
SharedUpdate(i, updates) ==
  /\ Len(configuration.heap) < MaxObjects
  /\ Len(configuration.instances) < 3
  /\ LET made == Constructed(configuration.heap,
                             Spread(configuration.heap[configuration.instances[i]], updates),
                             Str(<<"agent-2-b">>))
     IN configuration' =
          IF made.threw THEN configuration
          ELSE [configuration EXCEPT
                  !.heap = made.heap,
                  !.instances = Append(@, Len(made.heap)),
                  !.constructed = Append(@, Seen(made.heap, Len(made.heap)))]
  /\ UNCHANGED notConfiguration

\* the caller assigns a property of an object a call returned
SharedAssign(n, key, value) ==
  /\ n \in configuration.returned
  /\ Property(configuration.heap[n], key) # value
  /\ configuration' = [configuration EXCEPT !.heap[n] = Assign(@, key, value)]
  /\ UNCHANGED notConfiguration

\* the caller assigns a header of the headers object of a returned object:
\* `returned.headers['Modified-Header'] = 'modified'`
SharedAssignHeader(n) ==
  /\ n \in configuration.returned
  /\ LET headers == Property(configuration.heap[n], "headers")
     IN /\ headers.t = "ref"
        /\ Property(configuration.heap[Target(headers)], "Modified-Header") = Undefined
        /\ configuration' = [configuration EXCEPT !.heap[Target(headers)] =
                               Assign(@, "Modified-Header", Str(<<"modified">>))]
  /\ UNCHANGED notConfiguration

NextShared ==
  \/ \E i \in 1..Len(configuration.instances) : SharedGetConfig(i)
  \/ \E i \in 1..Len(configuration.instances) : SharedGetHeaders(i)
  \/ \E i \in 1..Len(configuration.instances) : SharedGetSafeConfig(i)
  \/ \E i \in 1..Len(configuration.instances), updates \in UpdateInputs :
       SharedUpdate(i, updates)
  \/ \E n \in 1..Len(configuration.heap) :
       \/ SharedAssign(n, "Modified-Header", Str(<<"modified">>))
       \/ SharedAssign(n, "timeout", Num(<<"1">>))
  \/ \E n \in 1..Len(configuration.heap) : SharedAssignHeader(n)

SpecShared == InitShared /\ [][NextShared]_vars

(***************************************************************************)
(* JSON.stringify and JSON.parse, as axios applies them to a request body  *)
(***************************************************************************)
\* values JSON.stringify leaves out of an object and writes as null in an array
Unserializable(v) == v.t \in {"undefined", "function", "symbol"}

\* a serializer that leaves out the characters it ought to escape
escapeDropsSpecials(c) == IF c \in {"\"", "\\"} THEN <<>> ELSE <<c>>

\* a character of a string as JSON.stringify writes it
escape(c) == IF c \in {"\"", "\\"} THEN <<"\\", c>> ELSE <<c>>

RECURSIVE quote(_)
quote(chars) == IF chars = <<>> THEN <<>> ELSE escape(Head(chars)) \o quote(Tail(chars))

\* JSON.stringify(v), a sequence of characters and punctuation tokens
RECURSIVE stringify(_), stringifyItems(_, _), stringifyEntries(_, _, _, _)
stringify(v) ==
  CASE v.t = "string" -> <<"\"">> \o quote(v.s) \o <<"\"">>
    [] v.t = "number" ->
         IF v.s \in {<<"NaN">>, <<"Infinity">>, <<"-", "Infinity">>} THEN <<"null">> ELSE v.s
    [] v.t = "boolean" -> v.s
    [] v.t = "array" -> <<"[">> \o stringifyItems(v.kids, TRUE) \o <<"]">>
    [] v.t = "object" -> <<"{">> \o stringifyEntries(v.keys, v.kids, 1, TRUE) \o <<"}">>
    [] OTHER -> <<"null">>

stringifyItems(kids, first) ==
  IF kids = <<>> THEN <<>>
  ELSE (IF first THEN <<>> ELSE <<",">>)
       \o (IF Unserializable(Head(kids)) THEN <<"null">> ELSE stringify(Head(kids)))
       \o stringifyItems(Tail(kids), FALSE)

stringifyEntries(keys, kids, i, first) ==
  IF i > Len(keys) THEN <<>>
  ELSE IF Unserializable(kids[i]) THEN stringifyEntries(keys, kids, i + 1, first)
  ELSE (IF first THEN <<>> ELSE <<",">>)
       \o <<"\"">> \o quote(<<keys[i]>>) \o <<"\"", ":">> \o stringify(kids[i])
       \o stringifyEntries(keys, kids, i + 1, FALSE)

\* the parser's result: the value read and the text that follows it
Parsed(value, rest) == [value |-> value, rest |-> rest]

\* the characters of a string literal whose opening quote has been read
RECURSIVE parseString(_, _)
parseString(text, chars) ==
  IF Head(text) = "\"" THEN Parsed(Str(chars), Tail(text))
  ELSE IF Head(text) = "\\" THEN parseString(Tail(Tail(text)), Append(chars, text[2]))
  ELSE parseString(Tail(text), Append(chars, Head(text)))

RECURSIVE parseNumber(_, _)
parseNumber(text, digits) ==
  IF text # <<>> /\ Head(text) \in Digit \cup {"-", "."}
  THEN parseNumber(Tail(text), Append(digits, Head(text)))
  ELSE Parsed(Num(digits), text)

\* JSON.parse: one value at the head of `text`
RECURSIVE parseValue(_), parseItems(_, _), parseEntries(_, _, _)
parseValue(text) ==
  CASE Head(text) = "\"" -> parseString(Tail(text), <<>>)
    [] Head(text) = "[" -> parseItems(Tail(text), <<>>)
    [] Head(text) = "{" -> parseEntries(Tail(text), <<>>, <<>>)
    [] Head(text) = "null" -> Parsed(Null, Tail(text))
    [] Head(text) \in {"true", "false"} -> Parsed(Boolean(Head(text) = "true"), Tail(text))
    [] OTHER -> parseNumber(text, <<>>)

parseItems(text, kids) ==
  IF Head(text) = "]" THEN Parsed(Arr(kids), Tail(text))
  ELSE IF Head(text) = "," THEN parseItems(Tail(text), kids)
  ELSE LET item == parseValue(text)
       IN parseItems(item.rest, Append(kids, item.value))

parseEntries(text, keys, kids) ==
  IF Head(text) = "}" THEN Parsed(Obj(keys, kids), Tail(text))
  ELSE IF Head(text) = "," THEN parseEntries(Tail(text), keys, kids)
  ELSE LET key == parseString(Tail(text), <<>>)
           item == parseValue(Tail(key.rest))
       IN parseEntries(item.rest, Append(keys, key.value.s[1]), Append(kids, item.value))

\* JSON.parse(text)
parse(text) == parseValue(text).value

(***************************************************************************)
(* SSAClient.ts: the operations of the client, and TealTiger.evaluateTool  *)
(***************************************************************************)
\* number of operations started on one client
MaxOperations == 1

\* a console.log or console.error call: its first argument and the value
\* printed after it
LogEntry(label, value) == [label |-> label, value |-> value]

\* the headers axios.create is given (lines 34-39), sent with every request
RequestHeaders(config) ==
  Spread(Obj(<<"Content-Type", "X-API-Key", "User-Agent">>,
             <<Str(<<"application/json">>), Property(config, "apiKey"),
               Str(<<"TealTiger-SDK/0.1.0">>)>>),
         Property(config, "headers"))

\* a request handed to axios: `body` is the text transformRequest makes of data
HttpRequest(method, url, hasData, data) ==
  [method |-> method, url |-> url, hasData |-> hasData, data |-> data,
   body |-> IF hasData THEN stringify(data) ELSE <<>>]

NoHttpRequest == HttpRequest("", <<>>, FALSE, Undefined)

\* what the request interceptor prints (lines 43-58)
requestLog(config, method, url, hasData, data) ==
  IF Truthy(Property(config, "debug"))
  THEN {LogEntry("[TealTiger SDK] Request:", Str(<<method, " ">> \o url)),
        LogEntry("[TealTiger SDK] Headers:", RequestHeaders(config))}
       \cup (IF hasData /\ Truthy(data)
             THEN {LogEntry("[TealTiger SDK] Body:", data)} ELSE {})
  ELSE {}

\* what the response interceptor prints for a response (lines 62-68)
responseLog(config, data) ==
  IF Truthy(Property(config, "debug"))
  THEN {LogEntry("[TealTiger SDK] Response:", Str(<<"200", " ", "OK">>)),
        LogEntry("[TealTiger SDK] Data:", data)}
  ELSE {}

\* what the response interceptor prints for a failed exchange (lines 69-72)
responseErrorLog(config) ==
  IF Truthy(Property(config, "debug"))
  THEN {LogEntry("[TealTiger SDK] Response Error:", Str(<<"error.message">>))}
  ELSE {}

\* a response interceptor that hands the transport's error on as it is
interceptResponseErrorUntranslated(error) == error

\* the response interceptor's error handler (lines 69-74): what the promise
\* of httpClient.get / httpClient.post rejects with
interceptResponseError(error) == handleHttpError(error)

\* the context each operation passes to handleError
Context(operation) ==
  CASE operation = "healthCheck" -> "Health check failed"
    [] operation \in {"evaluateSecurity", "evaluateTool"} -> "Security evaluation failed"
    [] operation = "getPolicies" -> "Failed to retrieve policies"
    [] operation = "validatePolicies" -> "Policy validation failed"
    [] operation = "getAuditTrail" -> "Failed to retrieve audit trail"

\* the object a PolicyCondition of the builder is
conditionObject(c) ==
  Obj(<<"type">> \o [i \in 1..Len(c.properties) |-> c.properties[i][1]],
      <<Str(<<c.type>>)>> \o [i \in 1..Len(c.properties) |-> Str(<<c.properties[i][2]>>)])

\* the object a PolicyTransformation is (PolicyBuilder.ts 152-154, 164-167, 177-180)
transformationObject(t) ==
  IF t.type = "read_only"
  THEN Obj(<<"type">>, <<Str(<<t.type>>)>>)
  ELSE Obj(<<"type", IF t.type = "parameter_filter" THEN "remove_parameters"
                                                    ELSE "anonymize_parameters">>,
           <<Str(<<t.type>>), Arr([i \in 1..Len(t.parameters) |-> Str(<<t.parameters[i]>>)])>>)

\* the SecurityPolicy object build() returns: the properties that were assigned
policyObject(policy) ==
  WithDefined(
    Obj(<<"conditions">>,
        <<Arr([i \in 1..Len(policy.conditions) |-> conditionObject(policy.conditions[i])])>>),
    <<"name", "description", "priority", "action", "reason", "transformation">>,
    <<IF policy.hasName THEN Str(policy.name) ELSE Undefined,
      IF policy.hasDescription THEN Str(policy.description) ELSE Undefined,
      IF policy.hasPriority THEN Num(policy.priority) ELSE Undefined,
      IF policy.action # "" THEN Str(<<policy.action>>) ELSE Undefined,
      IF policy.reason # "" THEN Str(<<policy.reason>>) ELSE Undefined,
      IF policy.transformation.defined THEN transformationObject(policy.transformation)
                                       ELSE Undefined>>)

\* the text of a one-token string property, "" when the property is missing
Text(o, k) ==
  IF Property(o, k).t = "string" /\ Len(Property(o, k).s) = 1 THEN Property(o, k).s[1] ELSE ""

\* the SecurityPolicy (lines 425-446) an object read from a request body is
SecurityPolicy(o) ==
  LET conditions == Property(o, "conditions").kids
      transformation == Property(o, "transformation")
  IN [hasName |-> Property(o, "name") # Undefined,
      name |-> Property(o, "name").s,
      hasDescription |-> Property(o, "description") # Undefined,
      description |-> Property(o, "description").s,
      hasPriority |-> Property(o, "priority") # Undefined,
      priority |-> Property(o, "priority").s,
      conditions |->
        [i \in 1..Len(conditions) |->
           PolicyCondition(Text(conditions[i], "type"),
                           [j \in 1..(Len(conditions[i].keys) - 1) |->
                              <<conditions[i].keys[j + 1],
                                Text(conditions[i], conditions[i].keys[j + 1])>>])],
      action |-> Text(o, "action"),
      reason |-> Text(o, "reason"),
      transformation |->
        IF transformation = Undefined THEN NoTransformation
        ELSE PolicyTransformation(
               Text(transformation, "type"),
               IF Len(transformation.keys) > 1
               THEN [i \in 1..Len(transformation.kids[2].kids) |->
                       transformation.kids[2].kids[i].s[1]]
               ELSE <<>>)]

\* the body of POST /api/security/evaluate
RequestObject(agentId, toolName, parameters) ==
  Obj(<<"agentId", "toolName", "parameters", "context">>,
      <<agentId, toolName, parameters, Undefined>>)

\* an SSAClient built from `config`, together with the console, the
\* operation in progress, the HTTP requests it has issued, the response.data
\* or the error the last exchange ended with, and how the operation settled
SSAClient(config, console) ==
  [pc |-> "idle", config |-> config, console |-> console, operations |-> 0,
   operation |-> "", toolName |-> Undefined, argument |-> Undefined, policies |-> <<>>,
   sent |-> 0, failed |-> 0, request |-> NoHttpRequest,
   response |-> Undefined, failure |-> NoFailure,
   settled |-> "pending", value |-> Undefined, error |-> NoThrow]

TenCharApiKey == Str(<<"t","e","n","-","c","h","a","r","s","!">>)

\* valid configurations a TealTiger client is constructed with
ClientConfigInputs ==
  {ConfigLiteral(k, HttpsUrl, Str(<<"test-agent">>), Undefined, r, d) :
     k \in {TenCharApiKey, LongApiKey},
     r \in {Undefined, Num(<<"0">>)},
     d \in {Undefined, Boolean(TRUE)}}

\* new TealTiger(userConfig): lines 33-50
InitSSA ==
  /\ ClientInit(Slots)
  /\ adapter = NoAdapter
  /\ builder = NoBuilder
  /\ configuration = NoConfiguration
  /\ applied = NoApplication
  /\ \E userConfig \in ClientConfigInputs :
       LET config == Configuration(userConfig, Undefined).config
       IN ssa = SSAClient(config,
                          IF Truthy(Property(config, "debug"))
                          THEN {LogEntry("[TealTiger SDK] Initialized with config:",
                                         getSafeConfig(config))}
                          ELSE {})

notSSA == <<clientVars, adapter, builder, configuration, applied>>

\* an operation is entered
Begun(operation, toolName, argument, policies) ==
  [ssa EXCEPT !.operations = @ + 1, !.operation = operation, !.toolName = toolName,
              !.argument = argument, !.policies = policies]

\* httpClient.get / httpClient.post is called and awaited
Sent(s, method, url, hasData, data) ==
  [s EXCEPT !.pc = "awaitHttp", !.sent = @ + 1,
            !.request = HttpRequest(method, url, hasData, data),
            !.console = @ \cup requestLog(s.config, method, url, hasData, data)]

\* the operation's promise settles
Rejected(s, error) == [s EXCEPT !.pc = "done", !.settled = "rejected", !.error = error]
Resolved(s, value) == [s EXCEPT !.pc = "done", !.settled = "resolved", !.value = value]

\* healthCheck(): lines 81-88
healthCheck ==
  /\ ssa.pc = "idle"
  /\ ssa.operations < MaxOperations
  /\ ssa' = Sent(Begun("healthCheck", Undefined, Undefined, <<>>),
                 "GET", <<"/health">>, FALSE, Undefined)
  /\ UNCHANGED notSSA

\* evaluateSecurity(request): lines 93-104
evaluateSecurity(request) ==
  /\ ssa.pc = "idle"
  /\ ssa.operations < MaxOperations
  /\ ssa' = Sent(Begun("evaluateSecurity", Property(request, "toolName"),
                       Property(request, "parameters"), <<>>),
                 "POST", <<"/api/security/evaluate">>, TRUE, request)
  /\ UNCHANGED notSSA

\* getPolicies(): lines 109-116
getPolicies ==
  /\ ssa.pc = "idle"
  /\ ssa.operations < MaxOperations
  /\ ssa' = Sent(Begun("getPolicies", Undefined, Undefined, <<>>),
                 "GET", <<"/api/security/policies">>, FALSE, Undefined)
  /\ UNCHANGED notSSA

\* validatePolicies(policies): lines 121-130
validatePolicies(policies) ==
  /\ ssa.pc = "idle"
  /\ ssa.operations < MaxOperations
  /\ ssa' = Sent(Begun("validatePolicies", Undefined, Undefined, policies),
                 "POST", <<"/api/security/policies/validate">>, TRUE,
                 Obj(<<"policies">>,
                     <<Arr([i \in 1..Len(policies) |-> policyObject(policies[i])])>>))
  /\ UNCHANGED notSSA

\* TealTiger.getAuditTrail(options) (lines 198-201) and
\* SSAClient.getAuditTrail(agentId, options) (lines 135-151)
getAuditTrail(options) ==
  /\ ssa.pc = "idle"
  /\ ssa.operations < MaxOperations
  /\ LET began == Begun("getAuditTrail", Undefined, options, <<>>)
         given == IF options = Undefined THEN Obj(<<>>, <<>>) ELSE options
         limit == IF Truthy(Property(given, "limit"))
                  THEN <<"limit=">> \o Property(given, "limit").s ELSE <<>>
         offset == IF Truthy(Property(given, "offset"))
                   THEN <<"offset=">> \o Property(given, "offset").s ELSE <<>>
         params == IF limit # <<>> /\ offset # <<>> THEN limit \o <<"&">> \o offset
                   ELSE limit \o offset
     IN ssa' = IF options = Null
               THEN Rejected(began, handleError(TypeErrorThrown, Context("getAuditTrail")))
               ELSE Sent(began, "GET",
                         <<"/api/security/audit/">> \o Property(ssa.config, "agentId").s
                           \o (IF params # <<>> THEN <<"?">> \o params ELSE <<>>),
                         FALSE, Undefined)
  /\ UNCHANGED notSSA

\* an evaluateTool that does not look at the success flag of the response
EvaluateToolContinuesIgnoringSuccess(s, data) ==
  Resolved(s, Property(data, "decision"))

\* evaluateTool from the resolution of evaluateSecurity on: lines 163-171
EvaluateToolContinues(s, data) ==
  IF ~Truthy(Property(data, "success"))
  THEN Rejected(s, TealTigerValidationError(<<"Security evaluation failed">>,
                                            "VALIDATION_ERROR",
                                            <<<<"response", "response">>>>))
  ELSE Resolved(s, Property(data, "decision"))

\* TealTiger.evaluateTool(toolName, parameters): lines 146-161
evaluateTool(toolName, parameters) ==
  /\ ssa.pc = "idle"
  /\ ssa.operations < MaxOperations
  /\ LET began == Begun("evaluateTool", toolName, parameters, <<>>)
         e == validateInputs(toolName, parameters)
     IN ssa' = IF e.thrown
               THEN Rejected(began, e)
               ELSE Sent(began, "POST", <<"/api/security/evaluate">>, TRUE,
                         RequestObject(Property(ssa.config, "agentId"), toolName, parameters))
  /\ UNCHANGED notSSA

\* bodies with which the authority answers an evaluation, and any other request
EvaluationBodies ==
  {Obj(<<"success", "decision">>,
       <<Boolean(s), Obj(<<"requestId", "action", "reason">>,
                         <<Str(<<"req-126">>), Str(<<a>>), Str(<<"Tool is safe">>)>>)>>) :
     s \in BOOLEAN, a \in {"allow", "deny"}}
  \cup {Obj(<<"success">>, <<Boolean(TRUE)>>),
        Obj(<<"success", "decision", "error">>,
            <<Boolean(FALSE), Obj(<<>>, <<>>),
              Obj(<<"code", "message">>,
                  <<Str(<<"NETWORK_ERROR">>), Str(<<"Connection failed">>)>>)>>)}

OtherBodies ==
  {Obj(<<"status", "service">>, <<Str(<<"healthy">>), Str(<<"ssa">>)>>),
   Obj(<<"policies">>, <<Arr(<<>>)>>),
   Obj(<<"validation">>, <<Obj(<<"valid">>, <<Boolean(TRUE)>>)>>),
   Null}

\* the HTTP exchange succeeds with response.data = data: the operation runs
\* from its await to its return
HttpResolves(data) ==
  /\ ssa.pc = "awaitHttp"
  /\ data \in (IF ssa.operation \in {"evaluateSecurity", "evaluateTool"}
               THEN EvaluationBodies ELSE OtherBodies)
  /\ LET s == [ssa EXCEPT !.console = @ \cup responseLog(ssa.config, data),
                          !.response = data]
     IN ssa' =
          CASE ssa.operation = "evaluateTool" -> EvaluateToolContinues(s, data)
            [] ssa.operation = "getPolicies" ->
                 IF data = Null
                 THEN Rejected(s, handleError(TypeErrorThrown, Context(ssa.operation)))
                 ELSE Resolved(s, Property(data, "policies"))
            [] ssa.operation = "validatePolicies" ->
                 IF data = Null
                 THEN Rejected(s, handleError(TypeErrorThrown, Context(ssa.operation)))
                 ELSE Resolved(s, Property(data, "validation"))
            [] OTHER -> Resolved(s, data)
  /\ UNCHANGED notSSA

\* a client that sends the request again while attempts remain
HttpRejectsThenRetries(failure) ==
  /\ ssa.pc = "awaitHttp"
  /\ LET s == [ssa EXCEPT !.console = @ \cup responseErrorLog(ssa.config),
                          !.failed = @ + 1, !.failure = failure]
         retries == Property(ssa.config, "retries")
     IN ssa' = IF ssa.sent = 1 /\ ~IsZero(retries)
               THEN [s EXCEPT !.sent = @ + 1]
               ELSE Rejected(s, handleError(interceptResponseError(failure),
                                            Context(ssa.operation)))
  /\ UNCHANGED notSSA

\* the HTTP exchange fails with `failure`: the response interceptor
\* translates it, the operation's catch block passes it to handleError and
\* rethrows; evaluateTool has no catch block and lets the rejection of
\* evaluateSecurity through
HttpRejects(failure) ==
  /\ ssa.pc = "awaitHttp"
  /\ LET s == [ssa EXCEPT !.console = @ \cup responseErrorLog(ssa.config),
                          !.failed = @ + 1, !.failure = failure]
     IN ssa' = Rejected(s, handleError(interceptResponseError(failure),
                                       Context(ssa.operation)))
  /\ UNCHANGED notSSA

\* the caller has consumed the outcome; the console keeps what was printed
SSAReturn ==
  /\ ssa.pc = "done"
  /\ ssa' = [SSAClient(ssa.config, ssa.console) EXCEPT !.operations = ssa.operations]
  /\ UNCHANGED notSSA

SensitiveParameters ==
  Obj(<<"path", "password", "auth">>,
      <<Str(<<"/", "t">>), Str(<<"h","u","n","t","e","r","2">>),
        Obj(<<"token">>, <<Str(<<"t","0","k","3","n">>)>>)>>)

\* policies build() returns: a bare one and one with every optional field,
\* for each action
BuiltPolicies ==
  {p \in {[EmptyPolicy EXCEPT !.hasName = TRUE, !.name = f[1],
                             !.hasDescription = f[2] # <<>>, !.description = f[2],
                             !.hasPriority = f[3] # <<>>, !.priority = f[3],
                             !.conditions = f[4], !.action = a[1], !.reason = a[2],
                             !.transformation = a[3]] :
            f \in {<<<<"p", "1">>, <<>>, <<>>,
                     <<PolicyCondition("tool_name", <<<<"pattern", "file-*">>>>)>>>>,
                   <<<<"p", "0">>, <<>>, <<>>, <<>>>>,
                   <<<<"a", "\"", "b", "\\">>, <<"d">>, <<"1", "0">>,
                     <<PolicyCondition("risk_level",
                                       <<<<"operator", ">=">>, <<"value", "high">>>>),
                       PolicyCondition("parameter_exists", <<<<"parameter", "password">>>>)>>>>},
            a \in {<<"allow", "Safe operation", NoTransformation>>,
                   <<"transform", "Sensitive parameters filtered for safety",
                     PolicyTransformation("parameter_filter", <<"password", "token">>)>>,
                   <<"deny", "Operation transformed to read-only for safety",
                     PolicyTransformation("read_only", <<>>)>>}} :
     ~validatePolicy(p).thrown}

PolicyLists ==
  {<<>>} \cup {<<p>> : p \in BuiltPolicies}
         \cup {<<p, q>> : p \in {x \in BuiltPolicies : x.action = "allow" /\ x.hasPriority},
                          q \in {x \in BuiltPolicies : x.action = "transform" /\ ~x.hasPriority}}

AuditOptions ==
  {Undefined, Null, Obj(<<"limit">>, <<Num(<<"1", "0">>)>>),
   Obj(<<"limit", "offset">>, <<Num(<<"0">>), Num(<<"5">>)>>)}

\* errors the transport raises: AxiosErrors, and other errors thrown
\* underneath (with a code of their own, or none)
SSAFailures ==
  {AxiosError("ECONNREFUSED", FALSE, 0), AxiosError("ECONNABORTED", FALSE, 0),
   AxiosError("ERR_BAD_REQUEST", TRUE, 401), AxiosError("ERR_BAD_RESPONSE", TRUE, 503),
   AxiosError("EPIPE", FALSE, 0), AxiosError("", FALSE, 0)}

NextSSA ==
  \/ healthCheck
  \/ evaluateSecurity(RequestObject(Str(<<"test-agent">>), FileWrite, SensitiveParameters))
  \/ getPolicies
  \/ \E policies \in PolicyLists : validatePolicies(policies)
  \/ \E options \in AuditOptions : getAuditTrail(options)
  \/ \E n \in {FileWrite, Str(<<>>)}, p \in {PathAndContent, SensitiveParameters, Null} :
       evaluateTool(n, p)
  \/ \E data \in EvaluationBodies \cup OtherBodies : HttpResolves(data)
  \/ \E failure \in SSAFailures : HttpRejects(failure)
  \/ SSAReturn

SpecSSA == InitSSA /\ [][NextSSA]_vars

(***************************************************************************)
(* Properties of executeTool                                               *)
(***************************************************************************)
\* the authority's verdict reached call c: evaluateSecurity resolved with
\* success = true and a decision
Decided(c) ==
  /\ evaluation[c].outcome = "resolved"
  /\ evaluation[c].response.success
  /\ evaluation[c].response.hasDecision

DecisionOf(c) == evaluation[c].response.decision

\* x occurs in message m as one of its parts
Contains(m, x) == \E i \in 1..Len(m) : m[i] = x

\* a function or a symbol occurs in v at some nesting depth
RECURSIVE ContainsOpaque(_)
ContainsOpaque(v) ==
  \/ v.t \in {"function", "symbol"}
  \/ \E i \in 1..Len(v.kids) : ContainsOpaque(v.kids[i])

\* the parameter values the claims call invalid
InvalidParameters(p) ==
  \/ p.t \in {"null", "undefined"}
  \/ p.t # "object"
  \/ ContainsOpaque(p)

\* C1: the toolExecutor is invoked at most once per executeTool call, and
\* only after evaluateSecurity returned success = true with action allow, or
\* with action transform and a transformedRequest; on every other path it is
\* never invoked.
ExecutorOnlyAfterAllowOrTransform ==
  \A c \in Slots :
    /\ Len(executorCalls[c]) <= 1
    /\ executorCalls[c] # <<>> =>
         /\ Decided(c)
         /\ \/ DecisionOf(c).action = "allow"
            \/ DecisionOf(c).action = "transform" /\ DecisionOf(c).hasTransformedRequest

ExecutorRanOnceAfterTransform ==
  \E c \in Slots :
    /\ pc[c] = "done"
    /\ Len(executorCalls[c]) = 1
    /\ DecisionOf(c).action = "transform"

\* C2: when the evaluation succeeds with action deny, the toolExecutor is
\* called zero times and the result has success = false, error code
\* SECURITY_DENIED, a message containing the decision's reason, details
\* carrying the decision's riskLevel, and the authority's decision.
DenyIsEnforced ==
  \A c \in Slots :
    (Decided(c) /\ DecisionOf(c).action = "deny") =>
      /\ pc[c] = "done"
      /\ settled[c] = "resolved"
      /\ executorCalls[c] = <<>>
      /\ result[c].success = FALSE
      /\ result[c].hasError
      /\ result[c].error.code = "SECURITY_DENIED"
      /\ Contains(result[c].error.message, DecisionOf(c).reason)
      /\ result[c].error.hasDetails
      /\ Contains(result[c].error.details, <<"riskLevel", DecisionOf(c).riskLevel>>)
      /\ result[c].securityDecision = DecisionOf(c)

DeniedCallDone ==
  \E c \in Slots :
    /\ pc[c] = "done"
    /\ Decided(c)
    /\ DecisionOf(c).action = "deny"
    /\ Truthy(call[c].toolExecutor)

\* C3: when the evaluation succeeds with action transform and a
\* transformedRequest, the toolExecutor is invoked with the rewritten tool
\* name and parameters (not the caller's, whenever the two differ); if the
\* executor succeeds the result is success = true with the executor's output
\* as data and the authority's decision.
TransformUsesRewrittenRequest ==
  \A c \in Slots :
    (Decided(c) /\ DecisionOf(c).action = "transform"
       /\ DecisionOf(c).hasTransformedRequest) =>
      LET tr == DecisionOf(c).transformedRequest
      IN /\ \A i \in 1..Len(executorCalls[c]) :
              /\ executorCalls[c][i].toolName = tr.toolName
              /\ executorCalls[c][i].parameters = tr.parameters
              /\ tr.toolName # call[c].toolName =>
                   executorCalls[c][i].toolName # call[c].toolName
              /\ tr.parameters # call[c].parameters =>
                   executorCalls[c][i].parameters # call[c].parameters
         /\ Truthy(call[c].toolExecutor) => Len(executorCalls[c]) = 1
         /\ executorOutcome[c].outcome = "resolved" =>
              /\ pc[c] = "done"
              /\ settled[c] = "resolved"
              /\ result[c].success
              /\ result[c].data = executorOutcome[c].data
              /\ result[c].securityDecision = DecisionOf(c)

TransformedCallSucceeded ==
  \E c \in Slots :
    /\ pc[c] = "done"
    /\ Decided(c)
    /\ DecisionOf(c).action = "transform"
    /\ DecisionOf(c).hasTransformedRequest
    /\ DecisionOf(c).transformedRequest.toolName # call[c].toolName
    /\ executorOutcome[c].outcome = "resolved"

\* C4: if toolName fails validateToolName or parameters are null/undefined,
\* not an object, an array, or hold a function or symbol at any depth,
\* executeTool returns a failure with error code INVALID_REQUEST without
\* calling evaluateSecurity or the toolExecutor, and errorCount grows by one.
InvalidInputFailsBeforeNetwork ==
  [][\A c \in Slots :
       (/\ pc[c] = "idle"
        /\ pc'[c] # "idle"
        /\ \/ validateToolName(call'[c].toolName).thrown
           \/ InvalidParameters(call'[c].parameters)) =>
         /\ pc'[c] = "done"
         /\ settled'[c] = "resolved"
         /\ result'[c].success = FALSE
         /\ result'[c].hasError
         /\ result'[c].error.code = "INVALID_REQUEST"
         /\ evaluateCalls'[c] = 0
         /\ executorCalls'[c] = <<>>
         /\ statistics'.errorCount = statistics.errorCount + 1]_vars

NestedOpaqueValueRejected ==
  \E c \in Slots :
    /\ pc[c] = "done"
    /\ ~validateToolName(call[c].toolName).thrown
    /\ call[c].parameters.t = "object"
    /\ \E i \in 1..Len(call[c].parameters.kids) :
         /\ call[c].parameters.kids[i].t = "object"
         /\ ContainsOpaque(call[c].parameters.kids[i])
    /\ result[c].error.code = "INVALID_REQUEST"
    /\ statistics.errorCount = 1

\* C5: when evaluateSecurity resolves with success = false, executeTool
\* returns a failure with code VALIDATION_ERROR and message 'Security
\* evaluation failed', never SECURITY_DENIED; the decision of the response is
\* not dispatched, the toolExecutor is not invoked and no per-action counter
\* changes.
UnsuccessfulEvaluationIsValidationError ==
  [][\A c \in Slots :
       (/\ pc[c] = "awaitEval"
        /\ evaluation'[c].outcome = "resolved"
        /\ ~evaluation'[c].response.success) =>
         /\ pc'[c] = "done"
         /\ settled'[c] = "resolved"
         /\ result'[c].success = FALSE
         /\ result'[c].error.code = "VALIDATION_ERROR"
         /\ result'[c].error.code # "SECURITY_DENIED"
         /\ result'[c].error.message = <<"Security evaluation failed">>
         /\ result'[c].securityDecision # evaluation'[c].response.decision
         /\ executorCalls'[c] = <<>>
         /\ statistics'.allowedRequests = statistics.allowedRequests
         /\ statistics'.deniedRequests = statistics.deniedRequests
         /\ statistics'.transformedRequests = statistics.transformedRequests]_vars

UnsuccessfulEvaluationWithDenyDecision ==
  \E c \in Slots :
    /\ pc[c] = "done"
    /\ evaluation[c].outcome = "resolved"
    /\ ~evaluation[c].response.success
    /\ evaluation[c].response.hasDecision
    /\ evaluation[c].response.decision.action = "deny"

NetworkClass == {"NETWORK_ERROR", "TIMEOUT_ERROR", "CONNECTION_ERROR"}

\* C6: when the transport times out or otherwise fails (no HTTP response is
\* obtained) during the evaluate step, the call ends in a failure result
\* with a network-class error code (TIMEOUT_ERROR for a timeout) and the
\* toolExecutor is never invoked; whatever the failure of the exchange, the
\* result is a failure and the executor is not invoked.
TransportFailureNeverAllows ==
  \A c \in Slots :
    evaluation[c].outcome = "rejected" =>
      /\ pc[c] = "done"
      /\ settled[c] = "resolved"
      /\ result[c].success = FALSE
      /\ result[c].hasError
      /\ executorCalls[c] = <<>>
      /\ ~evaluation[c].failure.hasResponse => result[c].error.code \in NetworkClass
      /\ evaluation[c].failure.code = "ECONNABORTED" =>
           result[c].error.code = "TIMEOUT_ERROR"

TimedOutCallDone ==
  \E c \in Slots :
    /\ pc[c] = "done"
    /\ evaluation[c].outcome = "rejected"
    /\ evaluation[c].failure.code = "ECONNABORTED"
    /\ Truthy(call[c].toolExecutor)

\* C7: executeTool never rejects: its promise resolves to a result envelope;
\* when the failure was caught at the outer boundary the envelope has
\* success = false, a requestId prefixed 'error-', a placeholder decision
\* with action deny and riskLevel critical, and an error with code, message
\* and details.
ExecuteToolNeverRejects ==
  \A c \in Slots :
    /\ settled[c] # "rejected"
    /\ pc[c] = "done" => settled[c] = "resolved"
    /\ caught[c] =>
         /\ pc[c] = "done"
         /\ result[c].success = FALSE
         /\ result[c].securityDecision.requestId.prefix = "error-"
         /\ result[c].securityDecision.action = "deny"
         /\ result[c].securityDecision.riskLevel = "critical"
         /\ result[c].hasError
         /\ result[c].error.code # ""
         /\ result[c].error.message # <<>>

UncodedErrorCaught ==
  \E c \in Slots :
    /\ pc[c] = "done"
    /\ caught[c]
    /\ result[c].error.code = "UNKNOWN_ERROR"

\* C8: when the evaluation succeeds with an action other than allow, deny or
\* transform, executeTool returns a failure with code POLICY_ERROR and a
\* message naming the unknown action, and the toolExecutor is never invoked.
UnknownActionIsPolicyError ==
  \A c \in Slots :
    (Decided(c) /\ DecisionOf(c).action \notin {"allow", "deny", "transform"}) =>
      /\ pc[c] = "done"
      /\ settled[c] = "resolved"
      /\ result[c].success = FALSE
      /\ result[c].hasError
      /\ result[c].error.code = "POLICY_ERROR"
      /\ result[c].error.message = <<"Unknown security action: ", DecisionOf(c).action>>
      /\ executorCalls[c] = <<>>

UnknownActionCallDone ==
  \E c \in Slots :
    /\ pc[c] = "done"
    /\ Decided(c)
    /\ DecisionOf(c).action = "unknown-action"
    /\ Truthy(call[c].toolExecutor)

\* C9: when the evaluation succeeds with action transform but no
\* transformedRequest, the result is a failure of the policy-error kind
\* (code POLICY_ERROR, as for an unknown action) and not a deny.
MissingTransformIsPolicyError ==
  \A c \in Slots :
    (pc[c] = "done" /\ Decided(c) /\ DecisionOf(c).action = "transform"
       /\ ~DecisionOf(c).hasTransformedRequest) =>
      /\ result[c].success = FALSE
      /\ result[c].error.code = "POLICY_ERROR"
      /\ result[c].error.code # "SECURITY_DENIED"

\* C10: when the evaluation succeeds with action allow and an executor is
\* supplied, the executor is invoked exactly once with the caller's toolName
\* and parameters; the result carries the authority's decision unchanged,
\* with success = true and data = executor output if the executor resolves,
\* and success = false with code TOOL_EXECUTION_ERROR if it throws.
AllowRunsOriginalRequest ==
  \A c \in Slots :
    (Decided(c) /\ DecisionOf(c).action = "allow" /\ Truthy(call[c].toolExecutor)) =>
      /\ pc[c] \in {"awaitExecutor", "done"}
      /\ executorCalls[c] =
           <<[toolName |-> call[c].toolName, parameters |-> call[c].parameters]>>
      /\ pc[c] = "done" <=> executorOutcome[c].outcome # "none"
      /\ pc[c] = "done" =>
           /\ settled[c] = "resolved"
           /\ result[c].securityDecision = DecisionOf(c)
      /\ executorOutcome[c].outcome = "resolved" =>
           /\ result[c].success
           /\ result[c].data = executorOutcome[c].data
           /\ ~result[c].hasError
      /\ executorOutcome[c].outcome = "rejected" =>
           /\ result[c].success = FALSE
           /\ result[c].hasError
           /\ result[c].error.code = "TOOL_EXECUTION_ERROR"

AllowedExecutorThrew ==
  \E c \in Slots :
    /\ pc[c] = "done"
    /\ Decided(c)
    /\ DecisionOf(c).action = "allow"
    /\ executorOutcome[c].outcome = "rejected"
    /\ executorOutcome[c].error.hasCode

(***************************************************************************)
(* Properties of the statistics                                            *)
(***************************************************************************)
\* no executeTool call is suspended at an await
Quiescent == \A c \in DOMAIN pc : pc[c] \in {"idle", "done"}

\* C16: after executeTool calls made one after the other since the last
\* reset, all of whose evaluations succeeded with an allow, deny or transform
\* decision (a allows, d denies, t transforms, in any order), getStatistics
\* reports totalRequests = a + d + t, allowedRequests = a, deniedRequests = d
\* and transformedRequests = t.
SequentialCountsMatchDecisions ==
  (/\ Quiescent
   /\ history.caught = 0
   /\ history.evaluated = history.allow + history.deny + history.transform) =>
    /\ statistics.totalRequests = history.allow + history.deny + history.transform
    /\ statistics.allowedRequests = history.allow
    /\ statistics.deniedRequests = history.deny
    /\ statistics.transformedRequests = history.transform

AllowThenTransformCounted ==
  /\ Quiescent
  /\ history.caught = 0
  /\ history.allow = 1
  /\ history.transform = 1
  /\ history.deny = 0
  /\ started = 2

\* C17: every executeTool call, whichever branch it ends in (validation
\* failure, transport failure, non-success response, allow, deny, transform,
\* unknown action), has incremented totalRequests by exactly one by the time
\* it completes.
EveryCallCountsOnce ==
  \A c \in DOMAIN pc : pc[c] = "done" => history.counted[c] = 1

\* C18: with several executeTool calls in flight on one client, interleaved
\* at their awaits, no statistics update is lost: at every moment, and so
\* once all calls have completed, totalRequests equals the number of calls
\* whose evaluation returned successfully since the last reset, each
\* per-action counter equals the number of calls whose evaluation returned
\* that decision, and errorCount equals the number of calls that ended in
\* the outer catch.
ConcurrentCallsLoseNoUpdate ==
  /\ statistics.totalRequests = history.evaluated
  /\ statistics.allowedRequests = history.allow
  /\ statistics.deniedRequests = history.deny
  /\ statistics.transformedRequests = history.transform
  /\ statistics.errorCount = history.caught

\* while one counted call is suspended at its executor, another call was
\* counted, failed in the catch block and completed
InterleavedCallsCounted ==
  \E c1, c2 \in DOMAIN pc :
    /\ c1 # c2
    /\ pc[c1] = "awaitExecutor"
    /\ pc[c2] = "done"
    /\ caught[c2]
    /\ history.counted[c1] = 1
    /\ history.counted[c2] = 1
    /\ statistics.totalRequests = 2
    /\ statistics.errorCount = 1

(***************************************************************************)
(* Properties of the provider adapters                                     *)
(***************************************************************************)
\* the call in progress ran the named stage
Ran(stage) == Contains(adapter.job.log, stage)

\* every name of `names` occurs in message m
Names(m, names) == \A i \in 1..Len(names) : Contains(m, names[i])

\* C11: in each adapter, if the input guardrail is run and fails, the call
\* ends denied: it rejects with an error whose message carries the failed
\* guardrails and the maximum risk score, and no budget check, provider
\* call, output guardrail or cost recording takes place.
InputGuardrailFailureDenies ==
  (adapter.job.hasGuardrailResult /\ ~adapter.job.guardrailResult.passed) =>
    /\ adapter.pc = "done"
    /\ adapter.job.settled = "rejected"
    /\ adapter.job.error.isError
    /\ Names(adapter.job.error.message, adapter.job.guardrailResult.failedGuardrails)
    /\ Contains(adapter.job.error.message,
                ToString(adapter.job.guardrailResult.maxRiskScore))
    /\ ~Ran("checkBudget") /\ ~adapter.job.hasBudgetCheck
    /\ ~Ran("callProvider") /\ ~adapter.job.hasResponse
    /\ ~Ran("outputGuardrail") /\ ~adapter.job.hasOutputResult
    /\ ~Ran("calculateActualCost") /\ ~Ran("store") /\ ~Ran("recordCost")
    /\ adapter.job.stored = <<>> /\ adapter.job.recorded = <<>>

TwoInputGuardrailsFailed ==
  /\ adapter.pc = "done"
  /\ adapter.job.hasGuardrailResult
  /\ adapter.job.guardrailResult.failedGuardrails = <<"pii-detection", "prompt-injection">>
  /\ adapter.costTracker /\ adapter.budgetManager /\ adapter.costStorage
  /\ adapter.config.enableCostTracking

\* C12: in each adapter, if checkBudget(agentId, estimated cost) returns
\* allowed = false, the call ends denied: it rejects with an error whose
\* message names the blocking limit and its threshold; the provider is never
\* called and no cost is recorded.
BudgetDenialStopsBeforeProvider ==
  (adapter.job.hasBudgetCheck /\ ~adapter.job.budgetCheck.allowed) =>
    /\ adapter.job.budgetArguments =
         <<[agentId |-> adapter.job.agentId,
            estimatedCost |-> estimateCost(adapter.provider, adapter.job.request)]>>
    /\ adapter.pc = "done"
    /\ adapter.job.settled = "rejected"
    /\ adapter.job.error.isError
    /\ adapter.job.budgetCheck.hasBlockedBy =>
         /\ Contains(adapter.job.error.message, adapter.job.budgetCheck.name)
         /\ Contains(adapter.job.error.message, ToString(adapter.job.budgetCheck.limit))
    /\ ~Ran("callProvider") /\ ~adapter.job.hasResponse
    /\ ~Ran("calculateActualCost") /\ ~Ran("store") /\ ~Ran("recordCost")
    /\ ~adapter.job.hasCostRecord
    /\ adapter.job.stored = <<>> /\ adapter.job.recorded = <<>>

DailyLimitBlockedCall ==
  /\ adapter.pc = "done"
  /\ adapter.job.hasBudgetCheck
  /\ adapter.job.budgetCheck.name = "daily-limit"
  /\ adapter.job.hasGuardrailResult
  /\ adapter.provider = "TealAzureOpenAI"

\* C13: in each adapter, if the output guardrail fails after the provider
\* call has returned, the whole call fails: the caller receives an error
\* whose message names the failed guardrails, and never the provider's
\* response.
OutputGuardrailFailureFailsCall ==
  (adapter.job.hasOutputResult /\ ~adapter.job.outputResult.passed) =>
    /\ adapter.job.hasResponse
    /\ adapter.pc = "done"
    /\ adapter.job.settled = "rejected"
    /\ adapter.job.error.isError
    /\ Names(adapter.job.error.message, adapter.job.outputResult.failedGuardrails)
    /\ adapter.job.returned = NoProviderResponse

OutputGuardrailFailedAfterResponse ==
  /\ adapter.pc = "done"
  /\ adapter.job.hasOutputResult
  /\ ~adapter.job.outputResult.passed
  /\ adapter.job.response.hasUsage
  /\ adapter.job.hasGuardrailResult
  /\ adapter.provider = "TealAnthropic"

\* C14, as claimed: for every call in which cost tracking is enabled with a
\* cost tracker (and a cost storage and a budget manager are injected) and
\* the provider returned usage, a CostRecord is computed from the actual
\* token counts, persisted via the cost storage and fed to
\* budgetManager.recordCost.
CostRecordedWheneverUsageReturned ==
  (/\ adapter.pc = "done"
   /\ adapter.config.enableCostTracking
   /\ adapter.costTracker
   /\ adapter.costStorage
   /\ adapter.budgetManager
   /\ adapter.job.hasResponse
   /\ adapter.job.response.hasUsage) =>
    /\ adapter.job.hasCostRecord
    /\ adapter.job.costRecord.tokens =
         actualTokens(adapter.provider, adapter.job.response.usage)
    /\ adapter.job.stored = <<adapter.job.costRecord>>
    /\ adapter.job.recorded = <<adapter.job.costRecord>>

\* the step takes the call past the output guardrail stage: the guardrail
\* passed, or the provider answered and no output guardrail is run
PassesOutputStage ==
  \/ /\ adapter.pc = "awaitProvider"
     /\ adapter'.job.hasResponse
     /\ ~(adapter.config.enableGuardrails /\ adapter.guardrailEngine)
  \/ /\ adapter.pc = "awaitOutputGuardrail"
     /\ adapter'.job.hasOutputResult
     /\ adapter'.job.outputResult.passed

\* the call goes on to budgetManager.recordCost with its cost record, or
\* returns when no budget manager is injected
FeedsBudgetManager ==
  IF adapter.budgetManager
  THEN /\ adapter'.pc = "awaitRecordCost"
       /\ adapter'.job.recorded = <<adapter'.job.costRecord>>
  ELSE /\ adapter'.pc = "done"
       /\ adapter'.job.settled = "resolved"
       /\ adapter'.job.recorded = <<>>

\* C14: in each adapter, when a call gets past the output guardrail stage
\* with cost tracking enabled at that moment, a cost tracker injected and
\* usage in the provider's response, a CostRecord is computed from the
\* actual token counts; it is handed to costStorage.store when a storage is
\* injected, and to budgetManager.recordCost, when a budget manager is
\* injected, once store has resolved or at once when there is no storage.
\* A call whose output guardrail fails computes no CostRecord, and a call
\* whose store rejects never calls recordCost.
CostRecordedAfterOutputStage ==
  [][/\ (/\ PassesOutputStage
         /\ adapter.config.enableCostTracking
         /\ adapter.costTracker
         /\ adapter'.job.response.hasUsage) =>
           /\ adapter'.job.hasCostRecord
           /\ adapter'.job.costRecord.tokens =
                actualTokens(adapter.provider, adapter'.job.response.usage)
           /\ IF adapter.costStorage
              THEN /\ adapter'.pc = "awaitStore"
                   /\ adapter'.job.stored = <<adapter'.job.costRecord>>
                   /\ adapter'.job.recorded = <<>>
              ELSE /\ adapter'.job.stored = <<>>
                   /\ FeedsBudgetManager
     /\ (adapter.pc = "awaitStore" /\ adapter'.pc # "awaitStore") =>
           IF adapter'.job.storeRejected
           THEN /\ adapter'.pc = "done"
                /\ adapter'.job.recorded = <<>>
           ELSE FeedsBudgetManager
     /\ (adapter.pc = "awaitOutputGuardrail" /\ adapter'.job.hasOutputResult
           /\ ~adapter'.job.outputResult.passed) =>
           /\ adapter'.pc = "done"
           /\ ~adapter'.job.hasCostRecord
           /\ adapter'.job.stored = <<>>
           /\ adapter'.job.recorded = <<>>
    ]_vars

CostStoredAndRecorded ==
  /\ adapter.pc = "done"
  /\ adapter.job.settled = "resolved"
  /\ adapter.job.hasOutputResult
  /\ adapter.job.hasCostRecord
  /\ adapter.job.costRecord.tokens = [inputTokens |-> 50, outputTokens |-> 10,
                                      totalTokens |-> 60]
  /\ adapter.job.stored = <<adapter.job.costRecord>>
  /\ adapter.job.recorded = <<adapter.job.costRecord>>

\* C15: in each adapter, when the provider call succeeded and the output
\* guardrail passed but costStorage.store fails, the call still succeeds:
\* the provider's response is returned to the caller.
StoreFailureStillSucceeds ==
  (adapter.pc = "done" /\ adapter.job.storeRejected) =>
    /\ adapter.job.settled = "resolved"
    /\ adapter.job.returned = adapter.job.response

(***************************************************************************)
(* Properties of the PolicyBuilder                                         *)
(***************************************************************************)
\* the builder holds everything a policy needs
Complete(policy) ==
  /\ policy.hasName /\ policy.name # <<>>
  /\ policy.action \in {"allow", "deny", "transform"}
  /\ policy.reason # ""
  /\ Len(policy.conditions) >= 1
  /\ policy.action = "transform" => policy.transformation.defined

\* C19: build() returns a policy if and only if the builder holds a
\* non-empty name, an action, a non-empty reason, at least one condition
\* and, when the action is transform, a transformation; otherwise it throws
\* a validation error.
BuildReturnsIffComplete ==
  builder.built =>
    /\ builder.outcome = "policy" <=> Complete(builder.policy)
    /\ builder.outcome # "policy" =>
         /\ builder.outcome = "threw"
         /\ builder.error.isError
         /\ builder.error.code = "VALIDATION_ERROR"

TransformPolicyBuilt ==
  /\ builder.built
  /\ builder.outcome = "policy"
  /\ builder.policy.action = "transform"
  /\ builder.policy.transformation.type = "parameter_filter"
  /\ Len(builder.policy.conditions) = 2

\* C20: every policy build() returns, after any sequence of terminal action
\* calls of which the last wins, carries a transformation if and only if
\* its action is transform.
TransformationIffTransform ==
  (builder.built /\ builder.outcome = "policy") =>
    (builder.policy.transformation.defined <=> builder.policy.action = "transform")

(***************************************************************************)
(* Properties of built policies, the configuration and the SSA client      *)
(***************************************************************************)
\* C21: a policy returned by build() is an immutable value that does not
\* alias builder state: once build() has returned a policy, no later call
\* on the same builder changes any field of that policy.
ReturnedPolicyNeverChanges ==
  [][builder.returned => builder'.policy = builder.policy]_vars

\* the API key a safe view was taken of, and the apiKey the view shows
ViewedKey ==
  IF configuration.called = "sanitizeConfig"
  THEN Property(configuration.argument, "apiKey")
  ELSE Property(configuration.instance.config, "apiKey")

ShownKey == Property(configuration.returned, "apiKey")

\* C22: for every API key, the safe views of a configuration
\* (Configuration.getSafeConfig and sanitizeConfig) report apiKey as a
\* fixed-length prefix of the key (its first 10 characters) followed by
\* "...", and the reported string never contains the full key.
SafeViewHidesApiKey ==
  (configuration.called \in {"getSafeConfig", "sanitizeConfig"} /\ ViewedKey # Undefined) =>
    /\ ShownKey.t = "string"
    /\ Len(ShownKey.s) = 10 + Len(Ellipsis)
    /\ ShownKey.s = substring(ViewedKey.s, 10) \o Ellipsis
    /\ ~includes(ShownKey.s, ViewedKey.s)

\* C27: for every execution request whose parameter map is empty,
\* executeTool fails at input validation before any network call is
\* attempted: evaluateSecurity is called zero times and the call has
\* already returned a failure result with code INVALID_REQUEST.
EmptyParametersFailValidation ==
  \A c \in DOMAIN pc :
    (pc[c] # "idle" /\ call[c].parameters = Obj(<<>>, <<>>)) =>
      /\ evaluateCalls[c] = 0
      /\ pc[c] = "done"
      /\ ~result[c].success
      /\ result[c].error.code = "INVALID_REQUEST"

\* a string value within v contains chars
RECURSIVE Mentions(_, _)
Mentions(v, chars) ==
  \/ v.t = "string" /\ includes(v.s, chars)
  \/ \E i \in 1..Len(v.kids) : Mentions(v.kids[i], chars)

\* the names of the sensitive-name heuristic (sanitizeParameters)
SensitiveNames == {"password", "token", "key", "secret", "credential", "apiKey", "api_key"}

\* the string values v holds, at any depth, under a sensitive name
RECURSIVE SensitiveValues(_)
SensitiveValues(v) ==
  UNION {IF v.t = "object" /\ v.keys[i] \in SensitiveNames /\ v.kids[i].t = "string"
         THEN {v.kids[i].s}
         ELSE SensitiveValues(v.kids[i]) : i \in 1..Len(v.kids)}

\* C23: with debug enabled, nothing written to the console during
\* construction or during a request contains the full API key or the
\* unredacted value of a parameter whose name is sensitive.
DebugLogRedactsSecrets ==
  \A e \in ssa.console :
    /\ ~Mentions(e.value, Property(ssa.config, "apiKey").s)
    /\ \A secret \in SensitiveValues(ssa.argument) : ~Mentions(e.value, secret)

\* C24: every error with which an SSAClient operation (healthCheck,
\* evaluateSecurity, getPolicies, validatePolicies, getAuditTrail) rejects is
\* an error of the SDK taxonomy: an Error whose code is a TealTigerErrorCode,
\* whatever the transport or the operation's own code threw underneath.
RejectionsAreTaxonomyErrors ==
  (/\ ssa.settled = "rejected"
   /\ ssa.operation \in {"healthCheck", "evaluateSecurity", "getPolicies",
                         "validatePolicies", "getAuditTrail"}) =>
    /\ ssa.error.code \in TealTigerErrorCode
    /\ ~IsAxiosError(ssa.error)
    /\ ssa.error.isError
    /\ ssa.error.hasCode

\* getPolicies failed on an error of the transport that is no AxiosError and
\* has a code of its own
ForeignErrorTranslated ==
  /\ ssa.settled = "rejected"
  /\ ssa.operation = "getPolicies"
  /\ ssa.failure = AxiosError("EPIPE", FALSE, 0)
  /\ ssa.error.code = "NETWORK_ERROR"
  /\ ssa.error.message = <<"Network error occurred">>

EvaluateToolThrowsOrReturnsDecision ==
  (ssa.operation = "evaluateTool" /\ ssa.pc = "done") =>
    LET invalid == validateInputs(ssa.toolName, ssa.argument)
        envelope == catchResult(ssa.toolName, ssa.error)
    IN /\ IF invalid.thrown
          THEN ssa.settled = "rejected" /\ ssa.error = invalid /\ ssa.sent = 0
                                       /\ ssa.error.code = "INVALID_REQUEST"
          ELSE IF ssa.failed = 1
          THEN ssa.settled = "rejected" /\ ssa.error = evaluateSecurityRejection(ssa.failure)
          ELSE IF ~Truthy(Property(ssa.response, "success"))
          THEN /\ ssa.settled = "rejected"
               /\ ssa.error.code = "VALIDATION_ERROR"
               /\ ssa.error.message = <<"Security evaluation failed">>
          ELSE /\ ssa.settled = "resolved"
               /\ ssa.value = Property(ssa.response, "decision")
       /\ ssa.settled = "rejected" =>
            /\ ~envelope.success
            /\ envelope.hasError
            /\ envelope.error.code = ssa.error.code

\* evaluateTool threw although the unsuccessful response carried an allow
\* decision
EvaluateToolThrewOnUnsuccessfulAllow ==
  /\ ssa.operation = "evaluateTool"
  /\ ssa.settled = "rejected"
  /\ Property(ssa.response, "success") = Boolean(FALSE)
  /\ Property(Property(ssa.response, "decision"), "action") = Str(<<"allow">>)
  /\ ssa.error.code = "VALIDATION_ERROR"

StageOrder ==
  <<"inputGuardrail", "estimateCost", "checkBudget", "callProvider",
    "outputGuardrail", "calculateActualCost", "store", "recordCost">>

\* position of a stage in StageOrder
StageRank(stage) == CHOOSE k \in 1..Len(StageOrder) : StageOrder[k] = stage

\* the stage a suspended call is waiting for
StageAwaited(await) ==
  CASE await = "awaitInputGuardrail" -> "inputGuardrail"
    [] await = "awaitCheckBudget" -> "checkBudget"
    [] await = "awaitProvider" -> "callProvider"
    [] await = "awaitOutputGuardrail" -> "outputGuardrail"
    [] await = "awaitStore" -> "store"
    [] await = "awaitRecordCost" -> "recordCost"

\* the stage has run to its end in the call and has not failed
StageCompleted(a, stage) ==
  CASE stage = "inputGuardrail" -> a.job.hasGuardrailResult /\ a.job.guardrailResult.passed
    [] stage = "estimateCost" -> TRUE
    [] stage = "checkBudget" -> a.job.hasBudgetCheck /\ a.job.budgetCheck.allowed
    [] stage = "callProvider" -> a.job.hasResponse
    [] stage = "outputGuardrail" -> a.job.hasOutputResult /\ a.job.outputResult.passed
    [] stage = "calculateActualCost" -> a.job.hasCostRecord
    [] stage = "store" -> a.pc # "awaitStore" /\ ~a.job.storeRejected
    [] stage = "recordCost" -> a.pc = "done" /\ a.job.settled = "resolved"

\* C29: within one adapter call the stages run strictly in the order input
\* guardrail, cost estimate, budget check, provider call, output guardrail,
\* actual cost, costStorage.store, budgetManager.recordCost: every stage
\* that has started after another one started after that one had completed
\* without failing, a suspended call waits for the one stage it started
\* last, and a call that has failed started nothing after the failing stage.
StagesRunInOrder ==
  LET log == adapter.job.log
  IN /\ \A i \in 1..Len(log) : \E k \in 1..Len(StageOrder) : StageOrder[k] = log[i]
     /\ \A i, j \in 1..Len(log) : i < j => StageRank(log[i]) < StageRank(log[j])
     /\ \A i \in 1..(Len(log) - 1) : StageCompleted(adapter, log[i])
     /\ adapter.pc \in AwaitStages => (log # <<>> /\ log[Len(log)] = StageAwaited(adapter.pc))
     /\ adapter.job.settled = "rejected" =>
          /\ adapter.pc = "done"
          /\ log # <<>>
          /\ ~StageCompleted(adapter, log[Len(log)])

\* a call ran every stage up to costStorage.store, whose failure kept the
\* cost from being recorded with the budget manager that was configured
StoreFailureEndedFullCall ==
  /\ adapter.job.log = SubSeq(StageOrder, 1, 7)
  /\ adapter.job.storeRejected
  /\ adapter.budgetManager
  /\ adapter.job.settled = "rejected"
  /\ adapter.job.recorded = <<>>

\* C30: the configuration governing a call is a snapshot: with a guardrail
\* engine configured, a call whose provider answered runs the output
\* guardrail exactly if it ran the input guardrail, and with a cost tracker
\* configured a call that resolved with reported usage computed the actual
\* cost exactly if it estimated the cost, whatever updateConfig was issued
\* while the call was suspended.
StagesFollowConfigurationAtEntry ==
  /\ (adapter.pc \in {"awaitOutputGuardrail", "awaitStore", "awaitRecordCost", "done"}
        /\ adapter.job.hasResponse /\ adapter.guardrailEngine) =>
       (Ran("outputGuardrail") <=> Ran("inputGuardrail"))
  /\ (adapter.pc = "done" /\ adapter.job.settled = "resolved"
        /\ adapter.job.response.hasUsage /\ adapter.costTracker) =>
       (Ran("calculateActualCost") <=> Ran("estimateCost"))

(***************************************************************************)
(* Properties of the statistics, the builder's conditions, Configuration,  *)
(* sanitizeParameters, the error taxonomy and the deployment mapping       *)
(***************************************************************************)
\* C32: in every reachable state of a TealTiger instance, after any sequence
\* of executeTool and resetStatistics calls and whatever decisions the
\* authority returned, totalRequests = allowedRequests + deniedRequests +
\* transformedRequests.
TotalIsSumOfActionCounts ==
  statistics.totalRequests =
    statistics.allowedRequests + statistics.deniedRequests + statistics.transformedRequests

\* C34: once an evaluation has been counted with its response time,
\* averageResponseTime equals the arithmetic mean of the response-time
\* samples handed to updateStatistics since construction or the last
\* resetStatistics, including the first sample after a reset.
AverageIsMeanOfSamples ==
  history.sampled > 0 =>
    statistics.averageResponseTime = Ratio(history.sampleSum, history.sampled)

\* C33: whenever enableGuardrails is true, a step of a call makes the
\* provider call only if the input guardrail has run over the user messages
\* and passed earlier in the call, and a step returns the response only if
\* the output guardrail has run and passed.
GuardrailsGateProviderCall ==
  [][adapter'.config.enableGuardrails =>
       /\ (adapter'.pc = "awaitProvider" /\ adapter.pc # "awaitProvider") =>
            /\ adapter'.job.hasGuardrailResult
            /\ adapter'.job.guardrailResult.passed
            /\ adapter'.job.checked = <<userMessages(adapter'.job.request)>>
       /\ (adapter'.job.settled = "resolved" /\ adapter.job.settled = "pending") =>
            /\ adapter'.job.hasOutputResult
            /\ adapter'.job.outputResult.passed]_vars

\* call c has passed checkBudget and has not yet recorded its cost
BetweenCheckAndRecord(c) ==
  /\ adapter.calls[c].job.hasBudgetCheck
  /\ adapter.calls[c].job.budgetCheck.allowed
  /\ adapter.calls[c].pc \in {"awaitProvider", "awaitOutputGuardrail", "awaitStore",
                             "awaitRecordCost"}

\* C31: with a budget gate that allows a spend exactly if the recorded total
\* plus the amount does not exceed the limit, and actual costs not above
\* the estimates, in every interleaving of concurrent adapter calls of one
\* agent no call passes checkBudget between another call's checkBudget and
\* that call's recordCost, and the recorded total never exceeds the limit.
BudgetHoldsUnderConcurrency ==
  /\ \A c1, c2 \in BudgetCalls :
       (BetweenCheckAndRecord(c1) /\ BetweenCheckAndRecord(c2)) => c1 = c2
  /\ adapter.budget.spent <= adapter.budget.limit

\* C35: the conditions of the policy under construction, and so of a built
\* policy, are exactly the conditions the when* calls made on the builder
\* were given, in call order: each when* call appends its one condition, no
\* call removes or replaces a condition, and the name, description,
\* priority and terminal-action calls leave the list as it is.
ConditionsAreThoseSupplied ==
  builder.outcome # "absent" => builder.policy.conditions = builder.supplied

\* a policy was built after whenRiskLevel and then whenToolName were called
BuiltWithTwoConditionsInCallOrder ==
  /\ builder.outcome = "policy"
  /\ builder.policy.hasDescription
  /\ builder.supplied =
       <<PolicyCondition("risk_level", <<<<"operator", ">=">>, <<"value", "high">>>>),
         PolicyCondition("tool_name", <<<<"pattern", "file-*">>>>)>>
  /\ builder.policy.conditions = builder.supplied

\* C36: a Configuration instance is immutable to its users: whatever get,
\* getConfig, getSafeConfig and update calls are made, and whatever is
\* assigned to the objects those calls returned (their headers object
\* included), every instance keeps returning what it returned when it was
\* constructed.
InstancesKeepTheirConfiguration ==
  configuration.instances # <<>> =>
    \A i \in 1..Len(configuration.instances) :
      Seen(configuration.heap, configuration.instances[i]) = configuration.constructed[i]

\* a number above zero
IsPositiveNumber(v) ==
  v.t = "number" /\ ~IsNegative(v) /\ ~IsZero(v) /\ v.s # <<"NaN">>

\* a number not below zero
IsNonNegativeNumber(v) == v.t = "number" /\ ~IsNegative(v) /\ v.s # <<"NaN">>

\* C37: every successfully constructed Configuration, made directly or
\* through update, has an apiKey string of at least 10 characters, an ssaUrl
\* that parses as an https URL, timeout > 0, retries >= 0 and a defined
\* agentId: the caller's when one was provided, a generated
\* 'agent-<timestamp>-<random>' id otherwise; for any other input the
\* constructor throws a configuration error and there is no instance.
ConstructedConfigurationIsValid ==
  \A made \in {configuration.instance, configuration.updated} :
    /\ made.outcome = "constructed" =>
         /\ Property(made.config, "apiKey").t = "string"
         /\ Len(Property(made.config, "apiKey").s) >= 10
         /\ Property(made.config, "ssaUrl").t = "string"
         /\ Protocol(Property(made.config, "ssaUrl").s) = <<"h", "t", "t", "p", "s", ":">>
         /\ IsPositiveNumber(Property(made.config, "timeout"))
         /\ IsNonNegativeNumber(Property(made.config, "retries"))
         /\ Property(made.config, "agentId").t = "string"
         /\ Property(made.config, "agentId") \in GeneratedAgentIds \cup {Str(<<"test-agent">>)}
    /\ made.outcome = "threw" =>
         made.error.code \in {"MISSING_API_KEY", "INVALID_API_KEY_FORMAT", "INVALID_SSA_URL",
                              "INVALID_CONFIG"}
    /\ (made = configuration.instance /\ made.outcome = "constructed"
          /\ configuration.called = "constructor") =>
         IF Truthy(Property(configuration.argument, "agentId"))
         THEN Property(made.config, "agentId") = Property(configuration.argument, "agentId")
         ELSE Property(made.config, "agentId") \in GeneratedAgentIds

(***************************************************************************)
(* sanitizeParameters applied to a parameters object                       *)
(***************************************************************************)

\* the property names of the parameter objects, each with its characters
KeySpelling ==
  "password" :> <<"p", "a", "s", "s", "w", "o", "r", "d">>
  @@ "authToken" :> <<"a", "u", "t", "h", "T", "o", "k", "e", "n">>
  @@ "API_KEY" :> <<"A", "P", "I", "_", "K", "E", "Y">>
  @@ "monkey" :> <<"m", "o", "n", "k", "e", "y">>
  @@ "path" :> <<"p", "a", "t", "h">>
  @@ "filter" :> <<"f", "i", "l", "t", "e", "r">>

\* const sensitiveKeys = [...]: line 727
sensitiveKeys ==
  << <<"p", "a", "s", "s", "w", "o", "r", "d">>,
     <<"t", "o", "k", "e", "n">>,
     <<"k", "e", "y">>,
     <<"s", "e", "c", "r", "e", "t">>,
     <<"c", "r", "e", "d", "e", "n", "t", "i", "a", "l">>,
     <<"a", "p", "i", "K", "e", "y">>,
     <<"a", "p", "i", "_", "k", "e", "y">> >>

\* sensitiveKeys.some(sensitive => key.toLowerCase().includes(sensitive)):
\* lines 741-742 and 759-760
isSensitive(key) ==
  \E i \in 1..Len(sensitiveKeys) :
    includes(toLowerCase(KeySpelling[key]), sensitiveKeys[i])

REDACTED == Str(<<"[REDACTED]">>)

\* sanitizeValue(value): lines 729-754
RECURSIVE sanitizeValue(_)
sanitizeValue(value) ==
  IF value.t \in {"null", "undefined"} THEN REDACTED
  ELSE IF value.t = "array"
  THEN Arr([i \in 1..Len(value.kids) |-> sanitizeValue(value.kids[i])])
  ELSE IF value.t = "object"
  THEN Obj(value.keys,
           [i \in 1..Len(value.kids) |->
              IF isSensitive(value.keys[i]) THEN REDACTED
              ELSE sanitizeValue(value.kids[i])])
  ELSE value

\* sanitizeParameters(parameters): lines 726-770
sanitizeParameters(parameters) ==
  Obj(parameters.keys,
      [i \in 1..Len(parameters.kids) |->
         IF isSensitive(parameters.keys[i]) THEN REDACTED
         ELSE sanitizeValue(parameters.kids[i])])

\* the values a parameter holds: primitives, then maps and lists of them
ParameterLeaves == {Str(<<"v">>), Num(<<"7">>), Null, Undefined}
ParameterNests(values) ==
  {Obj(<<k>>, <<v>>) : k \in DOMAIN KeySpelling, v \in values}
  \cup {Arr(<<v>>) : v \in values}
  \cup {Arr(<<v, Str(<<"v">>)>>) : v \in values}
ParameterValues ==
  ParameterLeaves \cup ParameterNests(ParameterLeaves)
  \cup ParameterNests(ParameterNests(ParameterLeaves))

\* the parameter objects sanitizeParameters is applied to
SanitizeInputs ==
  {Obj(<<k>>, <<v>>) : k \in DOMAIN KeySpelling, v \in ParameterValues}
  \cup {Obj(<<"path", k>>, <<v, w>>) :
          k \in DOMAIN KeySpelling \ {"path"}, v \in ParameterLeaves,
          w \in ParameterNests(ParameterLeaves)}

InitSanitize ==
  /\ ClientInit(Slots)
  /\ adapter = NoAdapter
  /\ builder = NoBuilder
  /\ configuration = NoConfiguration
  /\ ssa = NoSSAClient
  /\ \E parameters \in SanitizeInputs :
       applied = [pc |-> "called", parameters |-> parameters, result |-> Undefined]

\* const sanitized = sanitizeParameters(parameters)
SanitizeParameters ==
  /\ applied.pc = "called"
  /\ applied' = [applied EXCEPT !.pc = "returned",
                                !.result = sanitizeParameters(applied.parameters)]
  /\ UNCHANGED notApplied

NextSanitize == SanitizeParameters

SpecSanitize == InitSanitize /\ [][NextSanitize]_vars

(***************************************************************************)
(* TealAzureOpenAI: the pricing model of a call's deployment               *)
(***************************************************************************)

\* deployment names: a core, written in lower, upper or mixed case, behind a
\* prefix and before a suffix
DeploymentPrefixes == {<<>>, <<"P", "r", "o", "d", "-">>}
DeploymentCores ==
  {<<"g", "p", "t", "-", "4", "-", "3", "2", "k">>,
   <<"G", "P", "T", "-", "4", "-", "3", "2", "K">>,
   <<"g", "p", "t", "-", "4", "-", "t", "u", "r", "b", "o">>,
   <<"G", "p", "t", "-", "4", "-", "T", "u", "r", "b", "o">>,
   <<"g", "p", "t", "-", "4">>,
   <<"G", "P", "T", "-", "4">>,
   <<"g", "p", "t", "-", "4", "o">>,
   <<"g", "p", "t", "4">>,
   <<"g", "p", "t", "-", "3", "5", "-", "t", "u", "r", "b", "o", "-", "1", "6", "k">>,
   <<"G", "P", "T", "-", "3", ".", "5", "-", "T", "U", "R", "B", "O", "-", "1", "6", "K">>,
   <<"g", "p", "t", "-", "3", "5", "-", "t", "u", "r", "b", "o">>,
   <<"G", "P", "T", "-", "3", "5", "-", "T", "u", "r", "b", "o">>,
   <<"g", "p", "t", "-", "3", ".", "5", "-", "t", "u", "r", "b", "o">>,
   <<"d", "a", "v", "i", "n", "c", "i">>,
   <<>>}
DeploymentSuffixes ==
  {<<>>, <<"-", "e", "u">>, <<"-", "1", "6", "k">>,
   <<"-", "g", "p", "t", "-", "4", "-", "3", "2", "k">>,
   <<"/", "G", "P", "T", "-", "3", "5", "-", "t", "u", "r", "b", "o">>}
DeploymentNames ==
  {prefix \o core \o suffix :
     prefix \in DeploymentPrefixes, core \in DeploymentCores, suffix \in DeploymentSuffixes}

NoModel == <<"?">>

\* createChatCompletion(request) with cost tracking enabled and a cost tracker
InitDeployment ==
  /\ ClientInit(Slots)
  /\ adapter = NoAdapter
  /\ builder = NoBuilder
  /\ configuration = NoConfiguration
  /\ ssa = NoSSAClient
  /\ \E deployment \in DeploymentNames :
       applied = [pc |-> "estimate", deployment |-> deployment,
                  estimateModel |-> NoModel, recordModel |-> NoModel]

\* const model = this.mapDeploymentToModel(request.deployment), for the
\* estimate: line 180
EstimateModel ==
  /\ applied.pc = "estimate"
  /\ applied' = [applied EXCEPT !.pc = "record",
                                !.estimateModel = mapDeploymentToModel(applied.deployment)]
  /\ UNCHANGED notApplied

\* const model = this.mapDeploymentToModel(request.deployment), for the cost
\* record: line 226
RecordModel ==
  /\ applied.pc = "record"
  /\ applied' = [applied EXCEPT !.pc = "done",
                                !.recordModel = mapDeploymentToModel(applied.deployment)]
  /\ UNCHANGED notApplied

NextDeployment == EstimateModel \/ RecordModel

SpecDeployment == InitDeployment /\ [][NextDeployment]_vars

\* value with nothing but the values under sensitive names replaced, at any
\* depth through maps and lists
RECURSIVE RedactedUnderSensitiveNames(_)
RedactedUnderSensitiveNames(value) ==
  IF value.t = "array"
  THEN Arr([i \in 1..Len(value.kids) |-> RedactedUnderSensitiveNames(value.kids[i])])
  ELSE IF value.t = "object"
  THEN Obj(value.keys,
           [i \in 1..Len(value.kids) |->
              IF isSensitive(value.keys[i]) THEN REDACTED
              ELSE RedactedUnderSensitiveNames(value.kids[i])])
  ELSE value

\* C38: sanitizeParameters returns a structure equal to its input except
\* that the value under every key matching the sensitive-name heuristic
\* (case-insensitively, at any depth through nested maps and lists) is
\* '[REDACTED]'; every value under a non-sensitive key is returned unchanged.
SanitizedOnlyUnderSensitiveNames ==
  applied.pc = "returned" =>
    applied.result = RedactedUnderSensitiveNames(applied.parameters)

\* the taxonomy code of a failed exchange
TaxonomyCode(failure) ==
  CASE failure.code \in {"ECONNREFUSED", "ENOTFOUND"} -> "CONNECTION_ERROR"
    [] failure.code = "ECONNABORTED" -> "TIMEOUT_ERROR"
    [] OTHER ->
         IF failure.hasResponse /\ failure.status = 401 THEN "AUTHENTICATION_ERROR"
         ELSE IF failure.hasResponse /\ failure.status = 400 THEN "VALIDATION_ERROR"
         ELSE IF failure.hasResponse /\ failure.status >= 500 THEN "SERVER_ERROR"
         ELSE "NETWORK_ERROR"

DeploymentPatterns ==
  << <<Gpt4 \o <<"-", "3", "2", "k">>, Gpt4 \o <<"-", "3", "2", "k">>>>,
     <<Gpt4 \o <<"-", "t", "u", "r", "b", "o">>, Gpt4 \o <<"-", "t", "u", "r", "b", "o">>>>,
     <<Gpt4, Gpt4>>,
     <<Gpt35Turbo \o <<"-", "1", "6", "k">>, Gpt3Dot5Turbo \o <<"-", "1", "6", "k">>>>,
     <<Gpt3Dot5Turbo \o <<"-", "1", "6", "k">>, Gpt3Dot5Turbo \o <<"-", "1", "6", "k">>>>,
     <<Gpt35Turbo, Gpt3Dot5Turbo>>,
     <<Gpt3Dot5Turbo, Gpt3Dot5Turbo>> >>

PricingModels == {DeploymentPatterns[i][2] : i \in 1..Len(DeploymentPatterns)}

\* the patterns a deployment name matches, whatever its case
Matching(deployment) ==
  {i \in 1..Len(DeploymentPatterns) :
     includes(toLowerCase(deployment), DeploymentPatterns[i][1])}

\* C40: mapDeploymentToModel maps every deployment name, whatever its case,
\* to one of the five pricing models: the model of the most specific pattern
\* the name contains (gpt-4-32k before gpt-4-turbo before gpt-4, the 16k
\* variants before gpt-35-turbo / gpt-3.5-turbo), or gpt-3.5-turbo when it
\* contains none; the cost record of a call names the model its estimate
\* named.
DeploymentMapsToMostSpecificModel ==
  /\ applied.pc # "estimate" =>
       /\ applied.estimateModel \in PricingModels
       /\ applied.estimateModel = mapDeploymentToModel(toLowerCase(applied.deployment))
       /\ Matching(applied.deployment) = {} => applied.estimateModel = Gpt3Dot5Turbo
       /\ Matching(applied.deployment) # {} =>
            \E i \in Matching(applied.deployment) :
              /\ \A j \in Matching(applied.deployment) : i <= j
              /\ applied.estimateModel = DeploymentPatterns[i][2]
  /\ applied.pc = "done" => applied.recordModel = applied.estimateModel

\* a call's cost was recorded for a deployment whose upper-case name contains
\* both the gpt-35-turbo and the gpt-4-32k pattern
MixedCaseOverlappingDeploymentRecorded ==
  /\ applied.pc = "done"
  /\ applied.deployment # toLowerCase(applied.deployment)
  /\ {1, 6} \subseteq Matching(applied.deployment)
  /\ applied.recordModel = Gpt4 \o <<"-", "3", "2", "k">>

====
